---------------------------- MODULE Spec2Model ----------------------------
(***************************************************************************)
(* A model of github_org_stats.py (zoharbabin/github-org-stats).           *)
(*                                                                         *)
(* Part 1 (specification Spec): the rate/retry wrapper, gh_safe and        *)
(* robust_github_call, together with the process-wide FORBIDDEN_CACHE.     *)
(* Part 2 (specification SpecToken): GitHubAppTokenManager, the cache of   *)
(* installation tokens and of the signed assertion (JWT).                  *)
(* Part 3 (specifications SpecMain, SpecCollect, SpecSanitize): main(),    *)
(* from the command line to the exit code, with the repository filter,     *)
(* the per-repository sub-queries, the error handlers and the export       *)
(* stage with sanitize_language_names.                                     *)
(* Part 4 (specifications SpecColumns, SpecTracker, SpecBots, SpecParse):  *)
(* ColumnNameManager, ErrorTracker, is_bot_account with                    *)
(* filter_bot_contributors, and parse_installation_ids.                    *)
(*                                                                         *)
(* The program is single-threaded.  One call of the wrapper is modelled    *)
(* as a sequence of steps (cache lookup, pre-flight rate-limit query, one  *)
(* step per invocation of the wrapped operation); what the GitHub API      *)
(* answers at each step is an input drawn from a small set.                *)
(***************************************************************************)
EXTENDS Integers, Sequences, FiniteSets, TLC

VARIABLES
    FORBIDDEN_CACHE,   \* github_org_stats.py:85, the set of forbidden cache keys
    pc,                \* position of the caller inside gh_safe / robust_github_call
    call,              \* the call in progress: entry point, func, args, max_retries
    attempt,           \* the loop variable of robust_github_call
    log,               \* one entry per invocation of the operation in this call
    result,            \* what the call returned (or the exception it raised)
    pre,               \* what the pre-flight of gh_safe did in this call
    clock,                 \* time.time(), in seconds
    installation_tokens,   \* GitHubAppTokenManager._installation_tokens
    jwt_token,             \* GitHubAppTokenManager._jwt_token: <<>> is None
    jwt_expires_at,        \* GitHubAppTokenManager._jwt_expires_at
    tpc,                   \* position of the caller inside the token manager
    tcall,                 \* the token-manager call in progress
    tlog,                  \* what the call in progress has done so far
    tresult,               \* what the call returned: <<token>>, or <<>> so far
    mpc,                   \* position inside main()
    main_args,             \* main: args, the parsed command line (argparse.Namespace)
    world,                 \* the environment and the answers GitHub gives in this run
    orgs_left,             \* organizations_to_analyze still to iterate
    repos_left,            \* filtered_repos of the current organization still to process
    repo_info,             \* the record of the repository in progress: <<>> when none
    all_repo_data,         \* main: all_repo_data / repo_data, the list of records
    error_tracker,         \* ErrorTracker.errors, the list of error entries
    exit_code,             \* what main returned: <<>> while it runs
    json_written,          \* the record list dumped to the JSON report: <<list>>
    sanitized_repo_data,   \* main: sanitized_repo_data of the last export pass
    reports,               \* the reports written so far
    hist,                  \* what happened in this run (history, for the properties)
    used_names,            \* ColumnNameManager.used_names
    column_mapping,        \* ColumnNameManager.column_mapping: original name -> name
    column_calls,          \* the sanitize_column_name calls made so far (history)
    tracker,               \* an ErrorTracker: errors, error_counts, repo_errors
    tracker_calls,         \* the add_error calls made so far (history)
    tracker_query,         \* the last get_* call on the tracker and its answer
    bot_call,              \* a call of is_bot_account: username and answer
    filter_call,           \* a call of filter_bot_contributors: arguments and answer
    parse_call             \* a call of parse_installation_ids: argument and answer

retryVars == <<FORBIDDEN_CACHE, pc, call, attempt, log, result, pre>>

tokenVars == <<clock, installation_tokens, jwt_token, jwt_expires_at,
               tpc, tcall, tlog, tresult>>

mainVars == <<mpc, main_args, world, orgs_left, repos_left, repo_info,
              all_repo_data, error_tracker, exit_code, json_written,
              sanitized_repo_data, reports, hist>>

utilVars == <<used_names, column_mapping, column_calls, tracker, tracker_calls,
              tracker_query, bot_call, filter_call, parse_call>>

vars == <<retryVars, tokenVars, mainVars, utilVars>>

----------------------------------------------------------------------------
(* Program constants                                                       *)

DEFAULT_RATE_LIMIT_DELAY == 1
MAX_RETRIES == 3
RETRY_BACKOFF_FACTOR == 2
RATE_LIMIT_BUFFER == 100

(* Bounds of the model                                                     *)

\* robust_github_call is entered directly with max_retries in -1..MaxRetriesArg
MaxRetriesArg == 2

----------------------------------------------------------------------------
(* Inputs                                                                  *)

\* An operation handed to the wrapper.  A Python callable has a __name__
\* (a def, a bound method) or has none (functools.partial, a callable
\* object); gh_safe line 476 tests hasattr(func, '__name__').
Funcs ==
    { [id |-> "get_code_bytes", has_name |-> TRUE],
      [id |-> "partial_object", has_name |-> FALSE] }

\* The positional arguments of a call, as str(args) renders them.
ArgsSet == { "(repo1,)", "(repo2,)" }

\* What one invocation of the operation does: return a value, or raise.
\* retry_after is read only when has_retry_after (hasattr(e, 'retry_after')).
Exc(kind, status, has, ra) ==
    [kind |-> kind, status |-> status, has_retry_after |-> has, retry_after |-> ra]

Outcomes ==
    { Exc("ok", 200, FALSE, 0),
      Exc("RateLimitExceededException", 403, TRUE, 30),
      Exc("RateLimitExceededException", 403, FALSE, 0),
      Exc("UnknownObjectException", 404, FALSE, 0),
      Exc("GithubException", 403, FALSE, 0),
      Exc("GithubException", 422, FALSE, 0),
      Exc("GithubException", 500, FALSE, 0),
      Exc("Exception", 0, FALSE, 0) }

\* What the rate-limit query of the pre-flight answers: it raises, or it
\* gives core.remaining and core.reset; delta is reset - datetime.now().
RateLimitAnswers ==
    { [ok |-> FALSE, remaining |-> 0, delta |-> 0] } \cup
    [ ok : {TRUE}, remaining : {0, 99, 100}, delta : {-20, -10, 50} ]

NoCall == [entry |-> "none", func |-> [id |-> "none", has_name |-> FALSE],
           args |-> "()", max_retries |-> 0]
NoPre == [queried |-> FALSE, answer |-> [ok |-> FALSE, remaining |-> 0, delta |-> 0],
          slept |-> <<>>]

----------------------------------------------------------------------------
(* Pure helpers of the wrapper                                             *)

RECURSIVE Pow(_, _)
Pow(b, e) == IF e = 0 THEN 1 ELSE b * Pow(b, e - 1)

\* f"{func.__name__}:{str(args)}" (line 435); defined only when func has a
\* __name__, otherwise the attribute access raises AttributeError.
RobustCacheKey(func, args) == <<func.id, ":", args>>

\* Mutant: the key is always built from str(func), never from __name__.
SafeCacheKeyRepr(func, args) == <<"<" \o func.id \o ">", ":", args>>

\* f"{func.__name__ if hasattr(func, '__name__') else str(func)}:{str(args)}"
\* (line 476); str(func) of a nameless callable is its repr.
SafeCacheKey(func, args) ==
    IF func.has_name THEN <<func.id, ":", args>>
    ELSE <<"<" \o func.id \o ">", ":", args>>

\* Mutant: a failure is retried whatever the attempt number.
RetryAllowedAlways(att, max_retries) == TRUE

\* Mutant: the last retry is lost (off by one).
RetryAllowedOffByOne(att, max_retries) == att < max_retries - 1

\* attempt < max_retries (lines 418, 439, 450)
RetryAllowed(att, max_retries) == att < max_retries

\* Mutant: the interval carried by the exception is ignored.
RateLimitWaitFixed(e) == 60

\* e.retry_after if hasattr(e, 'retry_after') else 60 (line 419)
RateLimitWait(e) == IF e.has_retry_after THEN e.retry_after ELSE 60

\* Mutant: linear instead of exponential backoff.
BackoffWaitLinear(att) == RETRY_BACKOFF_FACTOR * att * DEFAULT_RATE_LIMIT_DELAY

\* (RETRY_BACKOFF_FACTOR ** attempt) * DEFAULT_RATE_LIMIT_DELAY (lines 441, 451)
BackoffWait(att) == Pow(RETRY_BACKOFF_FACTOR, att) * DEFAULT_RATE_LIMIT_DELAY


\* One iteration of the loop body of robust_github_call (lines 414-457) for
\* an invocation that ended as e: what the wrapper does next, how long it
\* sleeps first, and which keys it adds to the forbidden cache.
\*   next = "value"  return func's result          (line 415)
\*          "none"   return None                   (lines 425, 430, 438, 447, 457)
\*          "retry"  sleep, then the next attempt  (lines 421, 443, 453)
\*          "raise"  an exception leaves the handler (func.__name__ at line 435)
Step(next, slept, add) == [next |-> next, slept |-> slept, add |-> add]

HandleRateLimit(e, att, max_retries) ==
    IF RetryAllowed(att, max_retries)
    THEN Step("retry", <<RateLimitWait(e)>>, {})
    ELSE Step("none", <<>>, {})

\* Mutant: not-found is retried like any other failure.
HandleUnknownObjectRetried(e, att, max_retries) ==
    IF RetryAllowed(att, max_retries)
    THEN Step("retry", <<BackoffWait(att)>>, {})
    ELSE Step("none", <<>>, {})

HandleUnknownObject(e, att, max_retries) == Step("none", <<>>, {})

HandleForbidden(func, args) ==
    IF func.has_name
    THEN Step("none", <<>>, {RobustCacheKey(func, args)})
    ELSE Step("raise", <<>>, {})

HandleGithubException(func, args, e, att, max_retries) ==
    IF e.status = 403 THEN HandleForbidden(func, args)
    ELSE IF e.status >= 500 /\ RetryAllowed(att, max_retries)
    THEN Step("retry", <<BackoffWait(att)>>, {})
    ELSE Step("none", <<>>, {})

HandleException(e, att, max_retries) ==
    IF RetryAllowed(att, max_retries)
    THEN Step("retry", <<BackoffWait(att)>>, {})
    ELSE Step("none", <<>>, {})

Handle(func, args, e, att, max_retries) ==
    CASE e.kind = "ok" -> Step("value", <<>>, {})
      [] e.kind = "RateLimitExceededException" -> HandleRateLimit(e, att, max_retries)
      [] e.kind = "UnknownObjectException" -> HandleUnknownObject(e, att, max_retries)
      [] e.kind = "GithubException" -> HandleGithubException(func, args, e, att, max_retries)
      [] OTHER -> HandleException(e, att, max_retries)

\* The pre-flight of gh_safe (lines 481-491): the sleeps it makes for a
\* rate-limit answer.  A query that raises is swallowed by the bare except.
\* Mutant: the reserve itself counts as low.
PreflightLowInclusive(remaining) == remaining <= RATE_LIMIT_BUFFER

PreflightLow(remaining) == remaining < RATE_LIMIT_BUFFER

PreflightWaitTime(delta) == delta + 10

PreflightSleeps(answer) ==
    IF answer.ok /\ PreflightLow(answer.remaining) /\ PreflightWaitTime(answer.delta) > 0
    THEN <<PreflightWaitTime(answer.delta)>>
    ELSE <<>>

\* cache_key in FORBIDDEN_CACHE (line 477)
IsCachedForbidden(func, args) == SafeCacheKey(func, args) \in FORBIDDEN_CACHE

----------------------------------------------------------------------------
(* Specification Spec: the rate/retry wrapper                              *)

RetryInit ==
    /\ FORBIDDEN_CACHE = {}
    /\ pc = "idle"
    /\ call = NoCall
    /\ attempt = 0
    /\ log = <<>>
    /\ result = "pending"
    /\ pre = NoPre

\* gh_safe(github_client, func, *args) is entered (lines 475-478): a call
\* whose key is cached returns None at once, otherwise the pre-flight follows.
\* gh_safe forwards to robust_github_call with the default max_retries.
gh_safe_enter ==
    /\ pc = "idle"
    /\ \E f \in Funcs, a \in ArgsSet :
        /\ call' = [entry |-> "gh_safe", func |-> f, args |-> a,
                    max_retries |-> MAX_RETRIES]
        /\ IF IsCachedForbidden(f, a)
           THEN pc' = "returned" /\ result' = "None"
           ELSE pc' = "preflight" /\ result' = "pending"
    /\ attempt' = 0
    /\ log' = <<>>
    /\ pre' = NoPre
    /\ UNCHANGED FORBIDDEN_CACHE
    /\ UNCHANGED <<tokenVars, mainVars, utilVars>>

\* The pre-flight (lines 481-491), then the entry into robust_github_call.
gh_safe_preflight ==
    /\ pc = "preflight"
    /\ \E ans \in RateLimitAnswers :
        pre' = [queried |-> TRUE, answer |-> ans, slept |-> PreflightSleeps(ans)]
    /\ pc' = "attempt"
    /\ attempt' = 0
    /\ UNCHANGED <<FORBIDDEN_CACHE, call, log, result>>
    /\ UNCHANGED <<tokenVars, mainVars, utilVars>>

\* robust_github_call(func, *args, max_retries=N) entered directly
\* (line 398), as the tests do.
robust_github_call_enter ==
    /\ pc = "idle"
    /\ \E f \in Funcs, a \in ArgsSet, n \in -1 .. MaxRetriesArg :
        call' = [entry |-> "robust", func |-> f, args |-> a, max_retries |-> n]
    /\ pc' = "attempt"
    /\ attempt' = 0
    /\ log' = <<>>
    /\ result' = "pending"
    /\ pre' = NoPre
    /\ UNCHANGED FORBIDDEN_CACHE
    /\ UNCHANGED <<tokenVars, mainVars, utilVars>>

\* One iteration of `for attempt in range(max_retries + 1)` (lines 413-457):
\* the operation is invoked once and its outcome handled.
robust_github_call_attempt ==
    /\ pc = "attempt"
    /\ attempt <= call.max_retries
    /\ \E e \in Outcomes :
        LET h == Handle(call.func, call.args, e, attempt, call.max_retries) IN
        /\ log' = Append(log, [attempt |-> attempt, exc |-> e, slept |-> h.slept])
        /\ FORBIDDEN_CACHE' = FORBIDDEN_CACHE \cup h.add
        /\ CASE h.next = "value" -> pc' = "returned" /\ result' = "value" /\ attempt' = attempt
             [] h.next = "none" -> pc' = "returned" /\ result' = "None" /\ attempt' = attempt
             [] h.next = "raise" -> pc' = "raised" /\ result' = "AttributeError" /\ attempt' = attempt
             [] OTHER -> pc' = "attempt" /\ result' = result /\ attempt' = attempt + 1
    /\ UNCHANGED <<call, pre>>
    /\ UNCHANGED <<tokenVars, mainVars, utilVars>>

\* The range is exhausted without a return inside the loop (line 459): this
\* happens only for max_retries < 0, where the range is empty.
robust_github_call_exhausted ==
    /\ pc = "attempt"
    /\ attempt > call.max_retries
    /\ pc' = "returned"
    /\ result' = "None"
    /\ UNCHANGED <<FORBIDDEN_CACHE, call, attempt, log, pre>>
    /\ UNCHANGED <<tokenVars, mainVars, utilVars>>

\* The caller takes the result (or the exception) and goes on; the forbidden
\* cache is module state and outlives the call.
caller_continues ==
    /\ pc \in {"returned", "raised"}
    /\ pc' = "idle"
    /\ call' = NoCall
    /\ attempt' = 0
    /\ log' = <<>>
    /\ result' = "pending"
    /\ pre' = NoPre
    /\ UNCHANGED FORBIDDEN_CACHE
    /\ UNCHANGED <<tokenVars, mainVars, utilVars>>

----------------------------------------------------------------------------
(* GitHubAppTokenManager (lines 145-220)                                   *)

\* Bound: the clock advances MaxTicks times at most, by one minute each time.
MaxTicks == 11

\* Refresh margins and the lifetime of the signed assertion
TOKEN_REFRESH_MARGIN == 300
JWT_REFRESH_MARGIN == 60
JWT_LIFETIME == 600
JWT_CLOCK_SKEW == 60

InstallIds == {67890, 11111}

\* What the access_tokens endpoint answers (lines 203-212): a transport error
\* or a non-2xx status (raise_for_status raises), or a token and the number of
\* seconds after which it expires.
TokenResponses ==
    { [ok |-> FALSE, token |-> "none", lifetime |-> 0] } \cup
    [ ok : {TRUE}, token : {"ghs_A", "ghs_B"}, lifetime : {240, 600} ]

NoTokenCall == [op |-> "none", installation_id |-> 0, cached |-> <<>>]
NoTokenLog == [posts |-> 0, jwt_generated |-> FALSE, response |-> <<>>]

\* generate_jwt (lines 135-142): the payload of the assertion minted at now
generate_jwt(now) == [iat |-> now - JWT_CLOCK_SKEW, exp |-> now + JWT_LIFETIME]

\* Mutant: the assertion is refreshed with the margin of the installation token.
JwtNeedsRefreshWideMargin(now) ==
    jwt_token = <<>> \/ now >= jwt_expires_at - TOKEN_REFRESH_MARGIN

\* not self._jwt_token or now >= self._jwt_expires_at - 60 (line 172)
JwtNeedsRefresh(now) ==
    jwt_token = <<>> \/ now >= jwt_expires_at - JWT_REFRESH_MARGIN

\* Mutant: the token is refreshed ten minutes early instead of five.
TokenFreshTenMinutes(now, expires_at) == now < expires_at - JWT_LIFETIME

\* now < token_info['expires_at'] - 300 (line 193)
TokenFresh(now, expires_at) == now < expires_at - TOKEN_REFRESH_MARGIN

\* installation_id in self._installation_tokens and the entry is fresh
\* (lines 191-193)
CacheHit(id, now) ==
    /\ id \in DOMAIN installation_tokens
    /\ TokenFresh(now, installation_tokens[id].expires_at)

\* Mutant: a failed exchange is not noticed.
ExchangeNeverRaises(r) == FALSE

\* requests.post raises, or response.raise_for_status() does (lines 203-207)
ExchangeRaises(r) == ~r.ok

\* self._installation_tokens[installation_id] = {...} (lines 215-218)
StoreToken(id, token, expires_at) ==
    [i \in DOMAIN installation_tokens \cup {id} |->
        IF i = id THEN [token |-> token, expires_at |-> expires_at]
        ELSE installation_tokens[i]]

\* __init__ (lines 158-162)
TokenInit ==
    /\ clock = 0
    /\ installation_tokens = <<>>
    /\ jwt_token = <<>>
    /\ jwt_expires_at = 0
    /\ tpc = "idle"
    /\ tcall = NoTokenCall
    /\ tlog = NoTokenLog
    /\ tresult = <<>>

\* Time passes, between calls and between the steps of one call.
Tick ==
    /\ \E d \in {60} :
        /\ clock + d <= MaxTicks * 60
        /\ clock' = clock + d
    /\ UNCHANGED <<installation_tokens, jwt_token, jwt_expires_at,
                   tpc, tcall, tlog, tresult>>
    /\ UNCHANGED <<retryVars, mainVars, utilVars>>

\* get_installation_token(installation_id), lines 188-194: a fresh cached
\* entry is returned, otherwise the call goes on to get_jwt_token.
get_installation_token_enter ==
    /\ tpc = "idle"
    /\ \E id \in InstallIds :
        /\ tcall' = [op |-> "get_installation_token", installation_id |-> id,
                     cached |-> IF id \in DOMAIN installation_tokens
                                THEN <<installation_tokens[id]>> ELSE <<>>]
        /\ IF CacheHit(id, clock)
           THEN tpc' = "returned" /\ tresult' = <<installation_tokens[id].token>>
           ELSE tpc' = "jwt" /\ tresult' = <<>>
    /\ tlog' = NoTokenLog
    /\ UNCHANGED <<clock, installation_tokens, jwt_token, jwt_expires_at>>
    /\ UNCHANGED <<retryVars, mainVars, utilVars>>

\* get_jwt_token (lines 171-176), called at line 197
get_installation_token_jwt ==
    /\ tpc = "jwt"
    /\ IF JwtNeedsRefresh(clock)
       THEN /\ jwt_token' = <<generate_jwt(clock)>>
            /\ jwt_expires_at' = clock + JWT_LIFETIME
            /\ tlog' = [tlog EXCEPT !.jwt_generated = TRUE]
       ELSE /\ UNCHANGED <<jwt_token, jwt_expires_at, tlog>>
    /\ tpc' = "post"
    /\ UNCHANGED <<clock, installation_tokens, tcall, tresult>>
    /\ UNCHANGED <<retryVars, mainVars, utilVars>>

\* The exchange (lines 203-220): requests.post, raise_for_status, the parse
\* of the answer and the store into the cache.
get_installation_token_post ==
    /\ tpc = "post"
    /\ \E r \in TokenResponses :
        /\ tlog' = [tlog EXCEPT !.posts = @ + 1, !.response = <<r>>]
        /\ IF ~ExchangeRaises(r)
           THEN /\ installation_tokens' =
                    StoreToken(tcall.installation_id, r.token, clock + r.lifetime)
                /\ tresult' = <<r.token>>
                /\ tpc' = "returned"
           ELSE /\ UNCHANGED <<installation_tokens, tresult>>
                /\ tpc' = "raised"
    /\ UNCHANGED <<clock, jwt_token, jwt_expires_at, tcall>>
    /\ UNCHANGED <<retryVars, mainVars, utilVars>>

\* get_jwt_token called on its own (line 310, get_installation_id)
get_jwt_token_call ==
    /\ tpc = "idle"
    /\ tcall' = [op |-> "get_jwt_token", installation_id |-> 0, cached |-> <<>>]
    /\ IF JwtNeedsRefresh(clock)
       THEN /\ jwt_token' = <<generate_jwt(clock)>>
            /\ jwt_expires_at' = clock + JWT_LIFETIME
            /\ tlog' = [NoTokenLog EXCEPT !.jwt_generated = TRUE]
       ELSE /\ UNCHANGED <<jwt_token, jwt_expires_at>>
            /\ tlog' = NoTokenLog
    /\ tpc' = "returned"
    /\ tresult' = jwt_token'
    /\ UNCHANGED <<clock, installation_tokens>>
    /\ UNCHANGED <<retryVars, mainVars, utilVars>>

\* The caller takes the token (or the exception) and goes on; the manager's
\* caches outlive the call.
token_caller_continues ==
    /\ tpc \in {"returned", "raised"}
    /\ tpc' = "idle"
    /\ tcall' = NoTokenCall
    /\ tlog' = NoTokenLog
    /\ tresult' = <<>>
    /\ UNCHANGED <<clock, installation_tokens, jwt_token, jwt_expires_at>>
    /\ UNCHANGED <<retryVars, mainVars, utilVars>>

----------------------------------------------------------------------------
(* Part 3 (specifications SpecMain, SpecCollect, SpecSanitize): main().    *)
(*                                                                         *)
(* A Python dict is an ordered list of <<key, value>> pairs (insertion     *)
(* order, one pair per key); a repository record (repo_info) is a function *)
(* from the keys it holds to their values.  An optional value is a         *)
(* sequence: <<>> is None, <<v>> is the value v.                           *)

PyNone == [type |-> "NoneType", items |-> <<>>]

PyDict(items) == [type |-> "dict", items |-> items]

isinstance_dict(v) == v.type = "dict"

DictKeys(items) == {items[i][1] : i \in 1 .. Len(items)}

\* d[k] = v: an existing key keeps its position, a new key goes last
DictSet(items, k, v) ==
    IF k \in DictKeys(items)
    THEN [i \in 1 .. Len(items) |-> IF items[i][1] = k THEN <<k, v>> ELSE items[i]]
    ELSE Append(items, <<k, v>>)

DictGet(items, k) == items[CHOOSE i \in 1 .. Len(items) : items[i][1] = k][2]

\* sum(d.values())
RECURSIVE SumValues(_)
SumValues(items) ==
    IF items = <<>> THEN 0 ELSE Head(items)[2] + SumValues(Tail(items))

\* record[key] = value
SetKey(record, key, value) == (key :> value) @@ record

(* sanitize_language_names                                                 *)

language_mappings ==
    ("C#" :> "CSharp") @@ ("C++" :> "CPlusPlus") @@ ("F#" :> "FSharp")

\* the inner loop: sanitized_repo_languages is built key by key
RECURSIVE sanitize_repo_languages(_, _)
sanitize_repo_languages(original_languages, sanitized_repo_languages) ==
    IF original_languages = <<>> THEN sanitized_repo_languages
    ELSE LET lang_name == Head(original_languages)[1]
             byte_count == Head(original_languages)[2]
             new_name == IF lang_name \in DOMAIN language_mappings
                         THEN language_mappings[lang_name]
                         ELSE lang_name
         IN  sanitize_repo_languages(Tail(original_languages),
                 DictSet(sanitized_repo_languages, new_name, byte_count))

\* sanitized_repo = repo: the writes of the loop body land on the caller's record
copy_alias(repo) == [alias |-> TRUE, value |-> repo]

\* sanitized_repo = copy.deepcopy(repo): a new object, equal to repo
copy_deepcopy(repo) == [alias |-> FALSE, value |-> repo]

\* one pass of the outer loop: the record appended to the result, and the
\* caller's record as it is after the pass
sanitize_repo(repo) ==
    LET copy == copy_deepcopy(repo)
        r0 == copy.value
        r1 == IF "languages" \in DOMAIN r0 /\ isinstance_dict(r0["languages"])
              THEN SetKey(r0, "languages",
                       PyDict(sanitize_repo_languages(r0["languages"].items, <<>>)))
              ELSE r0
        r2 == IF /\ "primary_language" \in DOMAIN r1
                 /\ r1["primary_language"] \in DOMAIN language_mappings
              THEN SetKey(r1, "primary_language",
                       language_mappings[r1["primary_language"]])
              ELSE r1
    IN  [sanitized_repo |-> r2, repo |-> IF copy.alias THEN r2 ELSE repo]

\* the returned list sanitized_languages
sanitize_language_names(repo_data) ==
    [i \in 1 .. Len(repo_data) |-> sanitize_repo(repo_data[i]).sanitized_repo]

\* the caller's list after the call
repo_data_after_sanitize(repo_data) ==
    [i \in 1 .. Len(repo_data) |-> sanitize_repo(repo_data[i]).repo]

(* is_bot_account.  A username is a string; Spell gives its characters.    *)

Usernames ==
    {"alice", "bob", "dependabot[bot]", "RenovateBot",
     "dependabot", "DEPENDABOT", "renovate[bot]", "github-actions[bot]",
     "codecov-bot", "greenkeeper[bot]", "snyk-bot", "imgbot",
     "semantic-release-bot", "pre-commit-ci[bot]", "mybot", "Stale-Issues",
     "john-doe", "alice_smith", "developer123", "team-lead", "contributor",
     "human-user", "another-human", "bottle"}

Spell ==
    ("alice" :> <<"a", "l", "i", "c", "e">>)
    @@ ("bob" :> <<"b", "o", "b">>)
    @@ ("dependabot[bot]" :> <<"d", "e", "p", "e", "n", "d", "a", "b", "o", "t", "[", "b", "o", "t", "]">>)
    @@ ("RenovateBot" :> <<"R", "e", "n", "o", "v", "a", "t", "e", "B", "o", "t">>)
    @@ ("dependabot" :> <<"d", "e", "p", "e", "n", "d", "a", "b", "o", "t">>)
    @@ ("DEPENDABOT" :> <<"D", "E", "P", "E", "N", "D", "A", "B", "O", "T">>)
    @@ ("renovate[bot]" :> <<"r", "e", "n", "o", "v", "a", "t", "e", "[", "b", "o", "t", "]">>)
    @@ ("github-actions[bot]" :> <<"g", "i", "t", "h", "u", "b", "-", "a", "c", "t", "i", "o", "n", "s", "[", "b", "o", "t", "]">>)
    @@ ("codecov-bot" :> <<"c", "o", "d", "e", "c", "o", "v", "-", "b", "o", "t">>)
    @@ ("greenkeeper[bot]" :> <<"g", "r", "e", "e", "n", "k", "e", "e", "p", "e", "r", "[", "b", "o", "t", "]">>)
    @@ ("snyk-bot" :> <<"s", "n", "y", "k", "-", "b", "o", "t">>)
    @@ ("imgbot" :> <<"i", "m", "g", "b", "o", "t">>)
    @@ ("semantic-release-bot" :> <<"s", "e", "m", "a", "n", "t", "i", "c", "-", "r", "e", "l", "e", "a", "s", "e", "-", "b", "o", "t">>)
    @@ ("pre-commit-ci[bot]" :> <<"p", "r", "e", "-", "c", "o", "m", "m", "i", "t", "-", "c", "i", "[", "b", "o", "t", "]">>)
    @@ ("mybot" :> <<"m", "y", "b", "o", "t">>)
    @@ ("Stale-Issues" :> <<"S", "t", "a", "l", "e", "-", "I", "s", "s", "u", "e", "s">>)
    @@ ("john-doe" :> <<"j", "o", "h", "n", "-", "d", "o", "e">>)
    @@ ("alice_smith" :> <<"a", "l", "i", "c", "e", "_", "s", "m", "i", "t", "h">>)
    @@ ("developer123" :> <<"d", "e", "v", "e", "l", "o", "p", "e", "r", "1", "2", "3">>)
    @@ ("team-lead" :> <<"t", "e", "a", "m", "-", "l", "e", "a", "d">>)
    @@ ("contributor" :> <<"c", "o", "n", "t", "r", "i", "b", "u", "t", "o", "r">>)
    @@ ("human-user" :> <<"h", "u", "m", "a", "n", "-", "u", "s", "e", "r">>)
    @@ ("another-human" :> <<"a", "n", "o", "t", "h", "e", "r", "-", "h", "u", "m", "a", "n">>)
    @@ ("bottle" :> <<"b", "o", "t", "t", "l", "e">>)

UpperCase == <<"A", "B", "C", "D", "E", "F", "G", "H", "I", "J", "K", "L", "M", "N", "O", "P", "Q", "R", "S", "T", "U", "V", "W", "X", "Y", "Z">>

LowerCase == <<"a", "b", "c", "d", "e", "f", "g", "h", "i", "j", "k", "l", "m", "n", "o", "p", "q", "r", "s", "t", "u", "v", "w", "x", "y", "z">>

\* a comparison that keeps the case of the username
KeepCase(c) == c

\* re.IGNORECASE: both sides are compared in lower case
Lower(c) ==
    IF \E i \in 1 .. Len(UpperCase) : UpperCase[i] = c
    THEN LowerCase[CHOOSE i \in 1 .. Len(UpperCase) : UpperCase[i] = c]
    ELSE c

StartsWith(s, p) == Len(p) <= Len(s) /\ SubSeq(s, 1, Len(p)) = p

EndsWith(s, p) == Len(p) <= Len(s) /\ SubSeq(s, Len(s) - Len(p) + 1, Len(s)) = p

\* BOT_PATTERNS of the form .*x$ (and ^imgbot$, which .*bot$ covers)
BOT_SUFFIXES == <<<<"b", "o", "t">>, <<"[", "b", "o", "t", "]">>>>

\* BOT_PATTERNS of the form ^x.*
BOT_PREFIXES ==
    << <<"d", "e", "p", "e", "n", "d", "a", "b", "o", "t">>,
       <<"r", "e", "n", "o", "v", "a", "t", "e">>,
       <<"g", "i", "t", "h", "u", "b", "-", "a", "c", "t", "i", "o", "n", "s">>,
       <<"c", "o", "d", "e", "c", "o", "v">>,
       <<"g", "r", "e", "e", "n", "k", "e", "e", "p", "e", "r">>,
       <<"s", "n", "y", "k">>,
       <<"w", "h", "i", "t", "e", "s", "o", "u", "r", "c", "e">>,
       <<"s", "o", "n", "a", "r", "c", "l", "o", "u", "d">>,
       <<"a", "l", "l", "c", "o", "n", "t", "r", "i", "b", "u", "t", "o", "r", "s">>,
       <<"s", "e", "m", "a", "n", "t", "i", "c", "-", "r", "e", "l", "e", "a", "s", "e">>,
       <<"s", "t", "a", "l", "e">>,
       <<"m", "e", "r", "g", "i", "f", "y">>,
       <<"p", "r", "e", "-", "c", "o", "m", "m", "i", "t", "-", "c", "i">> >>

is_bot_account(username) ==
    IF username = "" THEN FALSE
    ELSE LET s == [i \in 1 .. Len(Spell[username]) |-> Lower(Spell[username][i])]
         IN  \/ \E i \in 1 .. Len(BOT_SUFFIXES) : EndsWith(s, BOT_SUFFIXES[i])
             \/ \E i \in 1 .. Len(BOT_PREFIXES) : StartsWith(s, BOT_PREFIXES[i])

(* What GitHub holds.  A repository is what the API answers for it: its    *)
(* flags, the author logins of the commits inside the --days-back window,  *)
(* the contributor logins, and the language byte counts.                   *)

Repository(name, fork, archived, commits, contributors, languages) ==
    [name |-> name, fork |-> fork, archived |-> archived, commits |-> commits,
     contributors |-> contributors, languages |-> languages]

\* org.get_repos() of each organization, in listing order
OrganizationRepos ==
    ("org1" :>
        << Repository("api-fork", TRUE, FALSE, <<"bob">>, <<"bob">>, <<<<"C++", 1>>>>),
           Repository("api", FALSE, FALSE, <<"alice", "dependabot[bot]", "alice">>,
                      <<"alice", "dependabot[bot]">>, <<<<"C#", 2>>, <<"C", 1>>>>) >>)
    @@ ("org2" :>
        << Repository("legacy", FALSE, TRUE, <<>>, <<"alice">>, <<<<"C", 1>>>>),
           Repository("docs", FALSE, FALSE, <<>>, <<"RenovateBot">>, <<>>) >>)

\* --org-ids "org1:67890,org2:11111" as parse_installation_ids returns it
OrgIds == <<<<"org1", <<67890>>>>, <<"org2", <<11111>>>>>>

Formats == {"json", "csv", "excel", "all"}

DEFAULT_MAX_REPOS == 100

\* --max-repos is type=int: argparse takes every integer
MaxReposArgs == {-1, 1, 2, DEFAULT_MAX_REPOS}

\* the command lines explored: --token and --app-id/--private-key are not
\* given together, app stands for both --app-id and --private-key
CommandLines ==
    {a \in [org : {"", "org1"}, org_ids : {<<>>, OrgIds},
            token : BOOLEAN, app : BOOLEAN,
            include_forks : BOOLEAN, include_archived : BOOLEAN,
            repos : {<<>>, <<"api-fork", "docs">>},
            max_repos : MaxReposArgs,
            exclude_bots : BOOLEAN, include_empty : BOOLEAN,
            format : Formats] :
        /\ ~(a.token /\ a.app)
        /\ ~(a.exclude_bots /\ a.include_empty)}

\* the answers a sub-query can get: the helper returns the data ("ok"), the
\* helper catches its own failure or finds nothing and returns its default
\* ("default"), or gh_safe returns None ("None")
SubQueryOutcomes == {"ok", "default", "None"}

SubQueries ==
    <<"commit_stats", "languages", "topics", "contributors", "branch_tag_info",
      "release_info", "actions_info", "protection_info", "latest_commit",
      "deps", "submodules">>

Some(v) == <<v>>

None == <<>>

\* stats['commit_authors'][author] += 1 over the commits
RECURSIVE commit_authors(_, _)
commit_authors(commits, counts) ==
    IF commits = <<>> THEN counts
    ELSE LET author == Head(commits)
             n == IF author \in DictKeys(counts) THEN DictGet(counts, author) ELSE 0
         IN  commit_authors(Tail(commits), DictSet(counts, author, n + 1))

\* get_commit_stats(repo, days_back) on the commits safe_get_commits returned
get_commit_stats(commits) ==
    [total_commits |-> Len(commits),
     unique_authors |-> Cardinality({commits[i] : i \in 1 .. Len(commits)}),
     commit_authors |-> commit_authors(commits, <<>>)]

\* get_primary_contributors(repo): one entry per contributor, in API order
get_primary_contributors(contributors) ==
    [i \in 1 .. Len(contributors) |-> [login |-> contributors[i]]]

\* max(languages.items(), key=lambda x: x[1])[0]: the first maximum
primary_language(languages) ==
    languages[CHOOSE i \in 1 .. Len(languages) :
        /\ \A j \in 1 .. Len(languages) : languages[j][2] <= languages[i][2]
        /\ \A j \in 1 .. i - 1 : languages[j][2] < languages[i][2]][1]

\* what gh_safe(github_client, helper, repo) returns for sub-query q
SubQueryResult(q, repo, outcome) ==
    IF outcome = "None" THEN None
    ELSE LET ok == outcome = "ok" IN
      CASE q = "commit_stats" ->
             Some(get_commit_stats(IF ok THEN repo.commits ELSE <<>>))
        [] q = "languages" -> Some(IF ok THEN repo.languages ELSE <<>>)
        [] q = "topics" -> Some(IF ok THEN <<"topic">> ELSE <<>>)
        [] q = "contributors" ->
             Some(IF ok THEN get_primary_contributors(repo.contributors) ELSE <<>>)
        [] q = "branch_tag_info" -> Some([branches_count |-> IF ok THEN 1 ELSE 0])
        [] q = "release_info" -> Some([total_releases |-> IF ok THEN 1 ELSE 0])
        [] q = "actions_info" -> Some([workflows_count |-> IF ok THEN 1 ELSE 0])
        [] q = "protection_info" -> Some([protected |-> ok])
        [] q = "latest_commit" ->
             Some(IF ok /\ repo.commits # <<>>
                  THEN <<<<"author", Head(repo.commits)>>>> ELSE <<>>)
        [] q = "deps" -> Some(IF ok THEN <<<<"pip", "present">>>> ELSE <<>>)
        [] q = "submodules" -> Some(IF ok THEN <<"vendor/lib">> ELSE <<>>)

\* truth value of a sub-query result: None, {} and [] are false, a dict
\* with keys is true
Truthy(q, res) ==
    /\ res # None
    /\ q \in {"languages", "topics", "contributors", "latest_commit", "deps",
              "submodules"} => res[1] # <<>>

\* len(x) if x else 0
LenOrZero(q, res) == IF Truthy(q, res) THEN Len(res[1]) ELSE 0

\* the statements of main that follow sub-query q: how its result enters repo_info
StoreSubQuery(info, q, res) ==
    CASE q = "commit_stats" ->
           IF Truthy(q, res)
           THEN SetKey(SetKey(SetKey(info, "total_commits", res[1].total_commits),
                    "unique_authors", res[1].unique_authors),
                    "commit_authors", res[1].commit_authors)
           ELSE info
      [] q = "languages" ->
           IF Truthy(q, res)
           THEN SetKey(SetKey(SetKey(info, "languages", PyDict(res[1])),
                    "total_code_bytes", SumValues(res[1])),
                    "primary_language", primary_language(res[1]))
           ELSE info
      [] q = "topics" -> SetKey(info, "topics", res)
      [] q = "contributors" ->
           SetKey(SetKey(info, "contributors", res),
               "contributors_count", LenOrZero(q, res))
      [] q = "branch_tag_info" ->
           IF Truthy(q, res)
           THEN SetKey(info, "branches_count", res[1].branches_count) ELSE info
      [] q = "release_info" ->
           IF Truthy(q, res)
           THEN SetKey(info, "total_releases", res[1].total_releases) ELSE info
      [] q = "actions_info" ->
           IF Truthy(q, res) THEN SetKey(info, "github_actions", res[1]) ELSE info
      [] q = "protection_info" ->
           IF Truthy(q, res) THEN SetKey(info, "branch_protection", res[1]) ELSE info
      [] q = "latest_commit" ->
           IF Truthy(q, res) THEN SetKey(info, "latest_commit", res[1]) ELSE info
      [] q = "deps" ->
           IF Truthy(q, res) THEN SetKey(info, "dependencies", res[1]) ELSE info
      [] q = "submodules" ->
           SetKey(SetKey(info, "submodules", res),
               "submodules_count", LenOrZero(q, res))

\* the dict literal that starts repo_info
BasicRepoInfo(org_name, repo) ==
    [organization |-> org_name, name |-> repo.name, fork |-> repo.fork,
     archived |-> repo.archived]

\* the repository filter without its fork test
PassesFilterKeepsForks(a, repo) ==
    /\ ~(repo.archived /\ ~a.include_archived)
    /\ ~(a.repos # <<>> /\ \A i \in 1 .. Len(a.repos) : a.repos[i] # repo.name)

\* the repository filter of main
PassesFilter(a, repo) ==
    /\ ~(repo.fork /\ ~a.include_forks)
    /\ ~(repo.archived /\ ~a.include_archived)
    /\ ~(a.repos # <<>> /\ \A i \in 1 .. Len(a.repos) : a.repos[i] # repo.name)

FilterRepos(a, repos) == SelectSeq(repos, LAMBDA repo : PassesFilter(a, repo))

\* organizations_to_analyze as main builds it
organizations_to_analyze(a) ==
    IF a.org # "" THEN <<<<a.org, None>>>> ELSE a.org_ids

\* args.max_repos // len(orgs) if len(orgs) > 1 else args.max_repos
org_max_repos(a) ==
    IF Len(organizations_to_analyze(a)) > 1
    THEN a.max_repos \div Len(organizations_to_analyze(a))
    ELSE a.max_repos

\* filtered_repos[:org_max_repos]: the first org_max_repos elements, and
\* for a negative bound all but the last -org_max_repos elements
LimitRepos(a, filtered_repos) ==
    IF Len(filtered_repos) > org_max_repos(a)
    THEN IF org_max_repos(a) >= 0
         THEN SubSeq(filtered_repos, 1, org_max_repos(a))
         ELSE SubSeq(filtered_repos, 1, Len(filtered_repos) + org_max_repos(a))
    ELSE filtered_repos

\* validate_arguments: TRUE when it returns, FALSE when it raises ValueError
validate_arguments(a, environ) ==
    /\ ~(a.org = "" /\ a.org_ids = <<>>)
    /\ ~(a.org # "" /\ a.org_ids # <<>>)
    /\ (a.token \/ a.app \/ environ)

\* ErrorTracker.add_error
add_error(errors, repo_name, error_type) ==
    Append(errors, [repo_name |-> repo_name, error_type |-> error_type])

\* the except clause around the pre-flight of gh_safe is a bare except: it
\* catches every exception raised in the rate-limit query or in the sleep
PreflightExceptCatches(exc) == TRUE
(* main(), one action per stage.  A KeyboardInterrupt can arrive at any    *)
(* step; hist records what the step just taken met (event), the answers    *)
(* the sub-queries of the repository in progress got (outcomes), whether   *)
(* a KeyboardInterrupt was raised so far (interrupted), and repo_data as   *)
(* it was when the collection ended (repo_data_before).                    *)

NoHist ==
    [event |-> "ok", outcomes |-> <<>>, interrupted |-> FALSE,
     repo_data_before |-> None]

\* return 0 at the end of the try block; return 1 in both except clauses
Return(code) == mpc' = "exit" /\ exit_code' = Some(code)

Met(event) ==
    hist' = [hist EXCEPT !.event = event,
                         !.interrupted = @ \/ event = "interrupt"]

\* parse_arguments, load_config, setup_logging, validate_arguments
main_startup ==
    /\ mpc = "start"
    /\ \E config \in {"none", "ok", "error"}, interrupt \in BOOLEAN :
         LET event == IF interrupt THEN "interrupt"
                      ELSE IF config = "error" THEN "config_error"
                      ELSE IF ~validate_arguments(main_args, world.environ)
                           THEN "validation_error"
                      ELSE "ok"
         IN  /\ Met(event)
             /\ IF event = "ok" THEN mpc' = "auth" /\ exit_code' = exit_code
                ELSE Return(1)
    /\ UNCHANGED <<main_args, world, orgs_left, repos_left, repo_info, all_repo_data,
                   error_tracker, json_written, sanitized_repo_data, reports>>
    /\ UNCHANGED <<retryVars, tokenVars, utilVars>>

\* "Initialize authentication": the token, the private key, or the environment
main_authentication ==
    /\ mpc = "auth"
    /\ \E creds \in {"ok", "error"}, interrupt \in BOOLEAN :
         LET event == IF interrupt THEN "interrupt"
                      ELSE IF ~main_args.token /\ creds = "error" THEN "credentials_error"
                      ELSE "ok"
         IN  /\ Met(event)
             /\ IF event = "ok"
                THEN /\ mpc' = "org_loop"
                     /\ orgs_left' = organizations_to_analyze(main_args)
                     /\ exit_code' = exit_code
                ELSE Return(1) /\ orgs_left' = orgs_left
    /\ UNCHANGED <<main_args, world, repos_left, repo_info, all_repo_data,
                   error_tracker, json_written, sanitized_repo_data, reports>>
    /\ UNCHANGED <<retryVars, tokenVars, utilVars>>

\* what can go wrong while the client of one organization is set up and its
\* repositories are listed
OrgEvents(a, installation_id) ==
    {"ok", "organization_error", "interrupt"}
    \cup (IF a.token THEN {} ELSE {"installation_token_error"})
    \cup (IF ~a.token /\ installation_id = None THEN {"installation_id_error"} ELSE {})

\* an organization handler that records the error and lets it end the run
organization_handler_aborts(org_name) ==
    /\ error_tracker' = add_error(error_tracker, org_name, "organization_error")
    /\ Return(1)
    /\ UNCHANGED <<orgs_left, repos_left>>

\* the except clause of the organization loop
organization_handler(org_name) ==
    /\ error_tracker' = add_error(error_tracker, org_name, "organization_error")
    /\ orgs_left' = Tail(orgs_left)
    /\ UNCHANGED <<mpc, exit_code, repos_left>>

\* one pass of the organization loop up to the repository loop
main_organization_setup ==
    /\ mpc = "org_loop"
    /\ orgs_left # <<>>
    /\ LET org_name == Head(orgs_left)[1]
           installation_id == Head(orgs_left)[2]
       IN  \E event \in OrgEvents(main_args, installation_id) :
             /\ Met(event)
             /\ CASE event = "ok" ->
                       /\ repos_left' =
                            LimitRepos(main_args, FilterRepos(main_args, OrganizationRepos[org_name]))
                       /\ mpc' = "repo_loop"
                       /\ UNCHANGED <<orgs_left, error_tracker, exit_code>>
                  [] event = "interrupt" ->
                       /\ Return(1)
                       /\ UNCHANGED <<orgs_left, repos_left, error_tracker>>
                  [] OTHER -> organization_handler(org_name)
    /\ UNCHANGED <<main_args, world, repo_info, all_repo_data, json_written,
                   sanitized_repo_data, reports>>
    /\ UNCHANGED <<retryVars, tokenVars, utilVars>>

\* the except clause of the repository loop, and its continue
repository_handler(repo) ==
    /\ error_tracker' = add_error(error_tracker, repo.name, "processing_error")
    /\ repos_left' = Tail(repos_left)
    /\ UNCHANGED <<mpc, exit_code, repo_info>>

\* the repository loop takes the next repository and builds repo_info
main_begin_repository ==
    /\ mpc = "repo_loop"
    /\ repos_left # <<>>
    /\ \E event \in {"ok", "repository_error", "interrupt"} :
         /\ hist' = [hist EXCEPT !.event = event, !.outcomes = <<>>,
                                 !.interrupted = @ \/ event = "interrupt"]
         /\ CASE event = "ok" ->
                   /\ repo_info' = Some(BasicRepoInfo(Head(orgs_left)[1], Head(repos_left)))
                   /\ mpc' = "sub_query"
                   /\ UNCHANGED <<repos_left, error_tracker, exit_code>>
              [] event = "interrupt" ->
                   /\ Return(1)
                   /\ UNCHANGED <<repos_left, repo_info, error_tracker>>
              [] OTHER -> repository_handler(Head(repos_left))
    /\ UNCHANGED <<main_args, world, orgs_left, all_repo_data, json_written,
                   sanitized_repo_data, reports>>
    /\ UNCHANGED <<retryVars, tokenVars, utilVars>>

\* a sub-query whose operation fails raises into main
SubQueryRaisesOnFailure(outcome) == outcome = "None"

\* gh_safe and robust_github_call turn every failure of an operation that
\* has a __name__ into the return value None: the helpers main passes are
\* module-level functions, so no sub-query raises into main
SubQueryRaises(outcome) == FALSE

\* one gh_safe call of the repository in progress and the statements that
\* store its result; a KeyboardInterrupt arrives during the pre-flight of
\* gh_safe or during the operation
main_sub_query ==
    /\ mpc = "sub_query"
    /\ Len(hist.outcomes) < Len(SubQueries)
    /\ LET q == SubQueries[Len(hist.outcomes) + 1]
           repo == Head(repos_left)
       IN  \E outcome \in world.outcomes, interrupt \in {"none", "preflight", "operation"} :
             LET caught == interrupt = "preflight" /\ PreflightExceptCatches("KeyboardInterrupt")
             IN  CASE interrupt # "none" /\ ~caught ->
                        /\ Met("interrupt")
                        /\ Return(1)
                        /\ UNCHANGED <<repo_info, repos_left, error_tracker>>
                   [] (interrupt = "none" \/ caught) /\ SubQueryRaises(outcome) ->
                        /\ hist' = [hist EXCEPT !.event = "repository_error",
                                                !.outcomes = <<>>,
                                                !.interrupted = @ \/ caught]
                        /\ error_tracker' = add_error(error_tracker, repo.name, "processing_error")
                        /\ repos_left' = Tail(repos_left)
                        /\ repo_info' = None
                        /\ mpc' = "repo_loop"
                        /\ UNCHANGED exit_code
                   [] OTHER ->
                        /\ repo_info' = Some(StoreSubQuery(repo_info[1], q,
                                                 SubQueryResult(q, repo, outcome)))
                        /\ hist' = [hist EXCEPT
                                      !.event = IF caught THEN "interrupt_swallowed" ELSE "ok",
                                      !.outcomes = Append(@, outcome),
                                      !.interrupted = @ \/ caught]
                        /\ UNCHANGED <<mpc, exit_code, repos_left, error_tracker>>
    /\ UNCHANGED <<main_args, world, orgs_left, all_repo_data, json_written,
                   sanitized_repo_data, reports>>
    /\ UNCHANGED <<retryVars, tokenVars, utilVars>>

\* all_repo_data.append(repo_info), the finally clause, the next repository
main_append_record ==
    /\ mpc = "sub_query"
    /\ Len(hist.outcomes) = Len(SubQueries)
    /\ \E interrupt \in BOOLEAN :
         /\ hist' = [hist EXCEPT !.event = IF interrupt THEN "interrupt" ELSE "ok",
                                 !.outcomes = <<>>,
                                 !.interrupted = @ \/ interrupt]
         /\ IF interrupt
            THEN /\ Return(1)
                 /\ UNCHANGED <<all_repo_data, repos_left, repo_info>>
            ELSE /\ all_repo_data' = Append(all_repo_data, repo_info[1])
                 /\ repos_left' = Tail(repos_left)
                 /\ repo_info' = None
                 /\ mpc' = "repo_loop"
                 /\ UNCHANGED exit_code
    /\ UNCHANGED <<main_args, world, orgs_left, error_tracker, json_written,
                   sanitized_repo_data, reports>>
    /\ UNCHANGED <<retryVars, tokenVars, utilVars>>

\* the repository loop of one organization ends, the next organization
main_organization_done ==
    /\ mpc = "repo_loop"
    /\ repos_left = <<>>
    /\ mpc' = "org_loop"
    /\ orgs_left' = Tail(orgs_left)
    /\ Met("ok")
    /\ UNCHANGED <<main_args, world, repos_left, repo_info, all_repo_data, error_tracker,
                   exit_code, json_written, sanitized_repo_data, reports>>
    /\ UNCHANGED <<retryVars, tokenVars, utilVars>>

\* after the organization loop: repo_data = all_repo_data, os.makedirs
main_collection_done ==
    /\ mpc = "org_loop"
    /\ orgs_left = <<>>
    /\ \E io \in {"ok", "error", "interrupt"} :
         /\ hist' = [hist EXCEPT
                       !.event = IF io = "ok" THEN "ok"
                                 ELSE IF io = "error" THEN "report_error" ELSE "interrupt",
                       !.interrupted = @ \/ io = "interrupt",
                       !.repo_data_before = Some(all_repo_data)]
         /\ IF io = "ok" THEN mpc' = "export_json" /\ UNCHANGED exit_code
            ELSE Return(1)
    /\ UNCHANGED <<main_args, world, orgs_left, repos_left, repo_info, all_repo_data,
                   error_tracker, json_written, sanitized_repo_data, reports>>
    /\ UNCHANGED <<retryVars, tokenVars, utilVars>>

\* what an export step met
ExportEvent(io) ==
    IF io = "ok" THEN "ok" ELSE IF io = "error" THEN "report_error" ELSE "interrupt"

\* if args.format in ['json', 'all']: json.dump of repo_data
main_export_json ==
    /\ mpc = "export_json"
    /\ IF main_args.format \in {"json", "all"}
       THEN \E io \in {"ok", "error", "interrupt"} :
              /\ Met(ExportEvent(io))
              /\ IF io = "ok"
                 THEN /\ json_written' = Some(all_repo_data)
                      /\ reports' = reports \cup {"json"}
                      /\ mpc' = "export_csv"
                      /\ UNCHANGED exit_code
                 ELSE Return(1) /\ UNCHANGED <<json_written, reports>>
       ELSE /\ Met("ok")
            /\ mpc' = "export_csv"
            /\ UNCHANGED <<json_written, reports, exit_code>>
    /\ UNCHANGED <<main_args, world, orgs_left, repos_left, repo_info, all_repo_data,
                   error_tracker, sanitized_repo_data>>
    /\ UNCHANGED <<retryVars, tokenVars, utilVars>>

\* the sanitizing pass of the CSV and of the spreadsheet export
SanitizePass(report, next_pc) ==
    IF main_args.format \in {report, "all"}
    THEN \E io \in {"ok", "error", "interrupt"} :
           /\ Met(ExportEvent(io))
           /\ sanitized_repo_data' = Some(sanitize_language_names(all_repo_data))
           /\ all_repo_data' = repo_data_after_sanitize(all_repo_data)
           /\ IF io = "ok"
              THEN /\ reports' = reports \cup {report}
                   /\ mpc' = next_pc
                   /\ UNCHANGED exit_code
              ELSE Return(1) /\ UNCHANGED reports
    ELSE /\ Met("ok")
         /\ mpc' = next_pc
         /\ UNCHANGED <<sanitized_repo_data, all_repo_data, reports, exit_code>>

\* if args.format in ['csv', 'all']
main_export_csv ==
    /\ mpc = "export_csv"
    /\ SanitizePass("csv", "export_excel")
    /\ UNCHANGED <<main_args, world, orgs_left, repos_left, repo_info, error_tracker,
                   json_written>>
    /\ UNCHANGED <<retryVars, tokenVars, utilVars>>

\* if args.format in ['excel', 'all']
main_export_excel ==
    /\ mpc = "export_excel"
    /\ SanitizePass("excel", "final")
    /\ UNCHANGED <<main_args, world, orgs_left, repos_left, repo_info, error_tracker,
                   json_written>>
    /\ UNCHANGED <<retryVars, tokenVars, utilVars>>

\* "Log final statistics" and return 0
main_final_statistics ==
    /\ mpc = "final"
    /\ \E interrupt \in BOOLEAN :
         /\ Met(IF interrupt THEN "interrupt" ELSE "ok")
         /\ Return(IF interrupt THEN 1 ELSE 0)
    /\ UNCHANGED <<main_args, world, orgs_left, repos_left, repo_info, all_repo_data,
                   error_tracker, json_written, sanitized_repo_data, reports>>
    /\ UNCHANGED <<retryVars, tokenVars, utilVars>>

\* the command line of the default run: one organization, a token
DefaultArgs ==
    [org |-> "org1", org_ids |-> <<>>, token |-> TRUE, app |-> FALSE,
     include_forks |-> FALSE, include_archived |-> FALSE, repos |-> <<>>,
     max_repos |-> DEFAULT_MAX_REPOS, exclude_bots |-> FALSE,
     include_empty |-> FALSE, format |-> "excel"]

MainStart ==
    /\ mpc = "start"
    /\ orgs_left = <<>>
    /\ repos_left = <<>>
    /\ repo_info = None
    /\ all_repo_data = <<>>
    /\ error_tracker = <<>>
    /\ exit_code = None
    /\ json_written = None
    /\ sanitized_repo_data = None
    /\ reports = {}
    /\ hist = NoHist

\* every command line, GitHub answering every sub-query
MainInit ==
    /\ MainStart
    /\ main_args \in CommandLines
    /\ world \in [environ : BOOLEAN, outcomes : {{"ok"}}]
    /\ world.environ => ~main_args.token /\ ~main_args.app

\* the default command line, every answer to every sub-query
CollectInit ==
    /\ MainStart
    /\ main_args = DefaultArgs
    /\ world = [environ |-> FALSE, outcomes |-> SubQueryOutcomes]

(* The record lists the sanitizer is applied to, when the collection ended *)
(* with them.                                                              *)

MaxLangs == 3

\* the dicts of at most MaxLangs languages
LanguageDicts ==
    {d \in UNION {[1 .. n -> {"C#", "C++", "F#", "c#", "CSharp", "C"} \X {1, 2}] : n \in 0 .. MaxLangs} :
        \A i, j \in 1 .. Len(d) : i # j => d[i][1] # d[j][1]}

WithKey(record, key, opt) ==
    IF opt = None THEN record ELSE SetKey(record, key, opt[1])

SanitizerRecords ==
    {WithKey(WithKey([name |-> "repo-1"], "languages", l), "primary_language", p) :
        l \in {None, Some(PyNone)} \cup {Some(PyDict(d)) : d \in LanguageDicts},
        p \in {None, Some("None"), Some("C#"), Some("C")}}

SanitizerLists ==
    {<<>>} \cup {<<r>> : r \in SanitizerRecords}
           \cup {<<r, [name |-> "repo-2", languages |-> PyDict(<<<<"C++", 1>>>>),
                        primary_language |-> "C++"]>> : r \in SanitizerRecords}

\* the organization loop has ended with any of these record lists
SanitizeInit ==
    /\ mpc = "org_loop"
    /\ orgs_left = <<>>
    /\ repos_left = <<>>
    /\ repo_info = None
    /\ all_repo_data \in SanitizerLists
    /\ error_tracker = <<>>
    /\ exit_code = None
    /\ json_written = None
    /\ sanitized_repo_data = None
    /\ reports = {}
    /\ hist = NoHist
    /\ main_args \in {[DefaultArgs EXCEPT !.format = f] : f \in Formats}
    /\ world = [environ |-> FALSE, outcomes |-> {"ok"}]

\* main has not been started
MainIdle ==
    /\ MainStart
    /\ main_args = DefaultArgs
    /\ world = [environ |-> FALSE, outcomes |-> {"ok"}]

----------------------------------------------------------------------------
(* Part 4: the helpers of the Excel export, the error tracker, the bot     *)
(* filter and the installation-id parser.                                  *)

(* ColumnNameManager.  A column name is a string, modelled as the sequence *)
(* of its characters.                                                      *)

COLUMN_NAME_LIMIT == 31
COLUMN_NAME_KEPT == 28

Digits == <<"0", "1", "2", "3", "4", "5", "6", "7", "8", "9">>

\* str.isdigit() of one character
isdigit(c) == \E i \in 1 .. Len(Digits) : Digits[i] = c

\* \w of the regular expressions: letters, digits and the underscore
IsWordChar(c) ==
    \/ \E i \in 1 .. Len(LowerCase) : LowerCase[i] = c
    \/ \E i \in 1 .. Len(UpperCase) : UpperCase[i] = c
    \/ isdigit(c)
    \/ c = "_"

\* \s of the regular expressions
IsSpaceChar(c) == c = " "

\* re.sub(r'\s+', '_', sanitized): every run of whitespace becomes one underscore
RECURSIVE CollapseSpaces(_)
CollapseSpaces(s) ==
    IF s = <<>> THEN <<>>
    ELSE IF IsSpaceChar(Head(s))
         THEN IF Len(s) > 1 /\ IsSpaceChar(s[2])
              THEN CollapseSpaces(Tail(s))
              ELSE <<"_">> \o CollapseSpaces(Tail(s))
         ELSE <<Head(s)>> \o CollapseSpaces(Tail(s))

\* sanitized.strip('_')
RECURSIVE StripUnderscores(_)
StripUnderscores(s) ==
    IF s = <<>> THEN <<>>
    ELSE IF Head(s) = "_" THEN StripUnderscores(Tail(s))
    ELSE IF s[Len(s)] = "_" THEN StripUnderscores(SubSeq(s, 1, Len(s) - 1))
    ELSE s

\* str(counter)
RECURSIVE str(_)
str(n) ==
    IF n < 10 THEN <<Digits[n + 1]>>
    ELSE str(n \div 10) \o <<Digits[(n % 10) + 1]>>

\* sanitize_column_name up to the handling of duplicates:
\*   re.sub(r'[^\w\s-]', '_', str(name)), re.sub(r'\s+', '_', ...), strip('_'),
\*   if sanitized and sanitized[0].isdigit(): sanitized = f"col_{sanitized}"
\*   if len(sanitized) > 31: sanitized = sanitized[:28] + "..."
CleanColumnName(name) ==
    LET replaced == [i \in 1 .. Len(name) |->
                        IF IsWordChar(name[i]) \/ IsSpaceChar(name[i]) \/ name[i] = "-"
                        THEN name[i] ELSE "_"]
        stripped == StripUnderscores(CollapseSpaces(replaced))
        prefixed == IF stripped # <<>> /\ isdigit(stripped[1])
                    THEN <<"c", "o", "l", "_">> \o stripped ELSE stripped
    IN  IF Len(prefixed) > COLUMN_NAME_LIMIT
        THEN SubSeq(prefixed, 1, COLUMN_NAME_KEPT) \o <<".", ".", ".">>
        ELSE prefixed

\* an if in place of the while: the suffixed name is not looked up again
SuffixOnce(original_sanitized, sanitized, counter, used) ==
    IF sanitized \in used
    THEN original_sanitized \o <<"_">> \o str(counter)
    ELSE sanitized

\* while sanitized in self.used_names: sanitized = f"{original_sanitized}_{counter}"
RECURSIVE HandleDuplicates(_, _, _, _)
HandleDuplicates(original_sanitized, sanitized, counter, used) ==
    IF sanitized \in used
    THEN HandleDuplicates(original_sanitized,
                          original_sanitized \o <<"_">> \o str(counter),
                          counter + 1, used)
    ELSE sanitized

\* the names the calls are made with
ColumnNames ==
    { <<"a">>, <<"a", " ", " ", "b">>, <<"a", "_", "b">>, <<"a", "@", "b">>,
      <<"1", "a">>, <<"#">>, <<"a", "_", "1">>, <<"_", "a", " ">>,
      [i \in 1 .. 40 |-> "a"], [i \in 1 .. COLUMN_NAME_LIMIT |-> "a"],
      [i \in 1 .. COLUMN_NAME_LIMIT + 1 |-> "a"] }

\* the number of sanitize_column_name calls on one manager
MaxColumnCalls == 3

\* ColumnNameManager.__init__
ColumnNameManagerInit ==
    /\ used_names = {}
    /\ column_mapping = <<>>
    /\ column_calls = <<>>

\* ColumnNameManager.sanitize_column_name(name)
sanitize_column_name ==
    /\ Len(column_calls) < MaxColumnCalls
    /\ \E name \in ColumnNames :
         LET original_sanitized == CleanColumnName(name)
             sanitized == HandleDuplicates(original_sanitized, original_sanitized,
                                           1, used_names)
         IN  /\ used_names' = used_names \cup {sanitized}
             /\ column_mapping' = (name :> sanitized) @@ column_mapping
             /\ column_calls' = Append(column_calls,
                                       [name |-> name, returned |-> sanitized])
    /\ UNCHANGED <<tracker, tracker_calls, tracker_query, bot_call, filter_call,
                   parse_call>>
    /\ UNCHANGED <<retryVars, tokenVars, mainVars>>

(* ErrorTracker.  error_counts and repo_errors are defaultdicts: functions  *)
(* whose domain is the set of keys inserted so far.                        *)

\* defaultdict.__getitem__: a missing key is inserted with the default
defaultdict_getitem(d, key, default) ==
    IF key \in DOMAIN d
    THEN [value |-> d[key], dict |-> d]
    ELSE [value |-> default, dict |-> (key :> default) @@ d]

\* a lookup written d[key] instead of d.get(key, default)
dict_get_inserting(d, key, default) ==
    defaultdict_getitem(d, key, default)

\* dict.get(key, default): the value and the dictionary after the lookup
dict_get(d, key, default) ==
    [value |-> IF key \in DOMAIN d THEN d[key] ELSE default, dict |-> d]

\* ErrorTracker.__init__
ErrorTrackerInit ==
    /\ tracker = [errors |-> <<>>, error_counts |-> <<>>, repo_errors |-> <<>>]
    /\ tracker_calls = <<>>
    /\ tracker_query = <<>>

TrackerRepos == {"repo1", "repo2", "repo3"}

\* the number of add_error calls on one tracker
MaxErrors == 3

\* ErrorTracker.get_error_summary; error_rate is the quotient of the pair
get_error_summary(self) ==
    [total_errors |-> Len(self.errors),
     errors_by_category |-> self.error_counts,
     repos_with_errors |-> Cardinality(DOMAIN self.repo_errors),
     error_rate |-> <<Len(self.errors),
                      IF Cardinality(DOMAIN self.repo_errors) > 1
                      THEN Cardinality(DOMAIN self.repo_errors) ELSE 1>>]

\* ErrorTracker.get_errors_for_repo: the answer and the tracker after the call
get_errors_for_repo(self, repo_name) ==
    LET found == dict_get(self.repo_errors, repo_name, <<>>)
    IN  [value |-> found.value,
         self |-> [self EXCEPT !.repo_errors = found.dict]]

\* ErrorTracker.add_error(repo_name, error_type, ...)
tracker_add_error ==
    /\ Len(tracker_calls) < MaxErrors
    /\ \E repo_name \in TrackerRepos, error_type \in {"API_ERROR", "PERMISSION_ERROR"} :
         LET errors == add_error(tracker.errors, repo_name, error_type)
             error_entry == errors[Len(errors)]
             count == defaultdict_getitem(tracker.error_counts, error_type, 0)
             list == defaultdict_getitem(tracker.repo_errors, repo_name, <<>>)
         IN  /\ tracker' =
                  [errors |-> errors,
                   error_counts |-> (error_type :> (count.value + 1)) @@ count.dict,
                   repo_errors |-> (repo_name :> Append(list.value, error_entry))
                                   @@ list.dict]
             /\ tracker_calls' =
                  Append(tracker_calls,
                         [repo_name |-> repo_name, error_type |-> error_type])
    /\ tracker_query' = <<>>
    /\ UNCHANGED <<used_names, column_mapping, column_calls, bot_call, filter_call,
                   parse_call>>
    /\ UNCHANGED <<retryVars, tokenVars, mainVars>>

tracker_get_error_summary ==
    /\ tracker_query' = <<[call |-> "get_error_summary",
                           value |-> get_error_summary(tracker)]>>
    /\ UNCHANGED <<tracker, tracker_calls>>
    /\ UNCHANGED <<used_names, column_mapping, column_calls, bot_call, filter_call,
                   parse_call>>
    /\ UNCHANGED <<retryVars, tokenVars, mainVars>>

tracker_get_errors_for_repo ==
    /\ \E repo_name \in TrackerRepos \cup {"unknown"} :
         LET answer == get_errors_for_repo(tracker, repo_name)
         IN  /\ tracker_query' = <<[call |-> "get_errors_for_repo",
                                    repo_name |-> repo_name,
                                    value |-> answer.value]>>
             /\ tracker' = answer.self
    /\ UNCHANGED tracker_calls
    /\ UNCHANGED <<used_names, column_mapping, column_calls, bot_call, filter_call,
                   parse_call>>
    /\ UNCHANGED <<retryVars, tokenVars, mainVars>>

(* is_bot_account and filter_bot_contributors as calls.  A contributor is  *)
(* a dictionary with or without a 'login' key.                             *)

\* a comprehension that keeps the entries the condition is true of
RECURSIVE filter_keeping_bots(_, _)
filter_keeping_bots(contributors, exclude_bots) ==
    IF contributors = <<>> THEN <<>>
    ELSE IF is_bot_account(IF "login" \in DOMAIN Head(contributors)
                           THEN Head(contributors).login ELSE "")
         THEN <<Head(contributors)>> \o filter_keeping_bots(Tail(contributors), exclude_bots)
         ELSE filter_keeping_bots(Tail(contributors), exclude_bots)

\* contrib.get('login', '') is the login, or "" when the key is missing
RECURSIVE filter_bot_contributors(_, _)
filter_bot_contributors(contributors, exclude_bots) ==
    IF ~exclude_bots THEN contributors
    ELSE IF contributors = <<>> THEN <<>>
    ELSE IF ~is_bot_account(IF "login" \in DOMAIN Head(contributors)
                            THEN Head(contributors).login ELSE "")
         THEN <<Head(contributors)>> \o filter_bot_contributors(Tail(contributors), exclude_bots)
         ELSE filter_bot_contributors(Tail(contributors), exclude_bots)

ContributorEntries ==
    { [login |-> "human-user", contributions |-> 10],
      [login |-> "dependabot[bot]", contributions |-> 5],
      [login |-> "another-human", contributions |-> 8],
      [login |-> "renovate[bot]", contributions |-> 3],
      [login |-> "", contributions |-> 1],
      [contributions |-> 2] }

\* the length of the contributor lists
MaxContributors == 3

BotCallsIdle ==
    /\ bot_call = [username |-> None, value |-> <<>>]
    /\ filter_call = [contributors |-> <<>>, exclude_bots |-> TRUE, value |-> <<>>]

\* is_bot_account(username); `not username` is true of None and of ""
is_bot_account_call ==
    /\ bot_call.value = <<>>
    /\ bot_call' = [bot_call EXCEPT !.value =
                      <<IF bot_call.username = None THEN FALSE
                        ELSE is_bot_account(bot_call.username[1])>>]
    /\ UNCHANGED <<used_names, column_mapping, column_calls, tracker, tracker_calls,
                   tracker_query, filter_call, parse_call>>
    /\ UNCHANGED <<retryVars, tokenVars, mainVars>>

\* filter_bot_contributors(contributors, exclude_bots)
filter_bot_contributors_call ==
    /\ filter_call.value = <<>>
    /\ filter_call' = [filter_call EXCEPT !.value =
                         <<filter_bot_contributors(filter_call.contributors,
                                                   filter_call.exclude_bots)>>]
    /\ UNCHANGED <<used_names, column_mapping, column_calls, tracker, tracker_calls,
                   tracker_query, bot_call, parse_call>>
    /\ UNCHANGED <<retryVars, tokenVars, mainVars>>

(* parse_installation_ids.  The argument is a string, modelled as the      *)
(* sequence of its characters; the answer is a dictionary from the         *)
(* organization name (its characters) to the id, or a ValueError.          *)

\* c in s
Contains(s, c) == \E i \in 1 .. Len(s) : s[i] = c

IndexOf(s, c) == CHOOSE i \in 1 .. Len(s) : s[i] = c /\ \A j \in 1 .. i - 1 : s[j] # c

\* s.split(sep)
RECURSIVE split(_, _)
split(s, sep) ==
    IF ~Contains(s, sep) THEN <<s>>
    ELSE <<SubSeq(s, 1, IndexOf(s, sep) - 1)>>
         \o split(SubSeq(s, IndexOf(s, sep) + 1, Len(s)), sep)

\* s.strip()
RECURSIVE strip(_)
strip(s) ==
    IF s = <<>> THEN <<>>
    ELSE IF IsSpaceChar(Head(s)) THEN strip(Tail(s))
    ELSE IF IsSpaceChar(s[Len(s)]) THEN strip(SubSeq(s, 1, Len(s) - 1))
    ELSE s

\* the number a string of decimal digits stands for
RECURSIVE DigitsValue(_)
DigitsValue(s) ==
    IF s = <<>> THEN 0
    ELSE 10 * DigitsValue(SubSeq(s, 1, Len(s) - 1))
         + (CHOOSE i \in 1 .. Len(Digits) : Digits[i] = s[Len(s)]) - 1

\* int(s): the number, or None when int raises ValueError; int ignores the
\* white space around the digits
int(s) ==
    LET digits == strip(s)
    IN  IF digits # <<>> /\ \A i \in 1 .. Len(digits) : isdigit(digits[i])
        THEN Some(DigitsValue(digits))
        ELSE None

DEFAULT_KEY == <<"d", "e", "f", "a", "u", "l", "t">>

\* installations[key] = value, keeping the first value of a key
first_assignment_wins(installations, key, value) ==
    installations @@ (key :> value)

\* installations[key] = value
dict_setitem(installations, key, value) ==
    (key :> value) @@ installations

\* one item: org:id, split at the first colon by split(':', 1), or an id
\* for the default organization
parse_item(installations, pair) ==
    LET key == IF Contains(pair, ":")
               THEN strip(SubSeq(pair, 1, IndexOf(pair, ":") - 1))
               ELSE DEFAULT_KEY
        install_id == IF Contains(pair, ":")
                      THEN int(SubSeq(pair, IndexOf(pair, ":") + 1, Len(pair)))
                      ELSE int(pair)
    IN  IF install_id = None THEN [raised |-> TRUE, value |-> installations]
        ELSE [raised |-> FALSE,
              value |-> dict_setitem(installations, key, install_id[1])]

\* for pair in installation_str.split(','): the loop ends at the first ValueError
RECURSIVE parse_items(_, _)
parse_items(installations, pairs) ==
    IF pairs = <<>> THEN [raised |-> FALSE, value |-> installations]
    ELSE LET first == parse_item(installations, strip(Head(pairs)))
         IN  IF first.raised THEN first
             ELSE parse_items(first.value, Tail(pairs))

parse_installation_ids(installation_str) ==
    IF Contains(installation_str, ",")
    THEN parse_items(<<>>, split(installation_str, ","))
    ELSE parse_item(<<>>, installation_str)

\* the items an --installation-id argument is written from: an organization
\* (None when the item has no colon), an id, and white space around the parts
InstallationItems ==
    { [org |-> Some(<<"o", "r", "g", "1">>), id |-> 111, padded |-> FALSE],
      [org |-> None, id |-> 222, padded |-> FALSE],
      [org |-> Some(<<"o", "r", "g", "3">>), id |-> 333, padded |-> FALSE],
      [org |-> Some(<<"o", "r", "g", "1">>), id |-> 444, padded |-> TRUE],
      [org |-> None, id |-> 12345, padded |-> FALSE],
      [org |-> None, id |-> 60, padded |-> TRUE],
      [org |-> Some(DEFAULT_KEY), id |-> 7, padded |-> FALSE] }

\* the number of items in one argument
MaxItems == 3

\* the argument written from its items: "org:id" or "id", joined by commas
RECURSIVE JoinItems(_)
JoinItems(items) ==
    LET item == items[1]
        pad == IF item.padded THEN <<" ">> ELSE <<>>
        text == IF item.org = None THEN pad \o str(item.id) \o pad
                ELSE pad \o item.org[1] \o pad \o <<":">> \o pad \o str(item.id) \o pad
    IN  IF Len(items) = 1 THEN text
        ELSE text \o <<",">> \o JoinItems(Tail(items))

ParseCallIdle ==
    parse_call = [items |-> <<>>, installation_str |-> <<"1">>, value |-> <<>>]

\* parse_installation_ids(installation_str)
parse_installation_ids_call ==
    /\ parse_call.value = <<>>
    /\ parse_call' = [parse_call EXCEPT !.value =
                        <<parse_installation_ids(parse_call.installation_str)>>]
    /\ UNCHANGED <<used_names, column_mapping, column_calls, tracker, tracker_calls,
                   tracker_query, bot_call, filter_call>>
    /\ UNCHANGED <<retryVars, tokenVars, mainVars>>

\* nothing of Part 4 is in use
UtilIdle == ColumnNameManagerInit /\ ErrorTrackerInit /\ BotCallsIdle /\ ParseCallIdle

----------------------------------------------------------------------------
Init == RetryInit /\ TokenInit /\ MainIdle /\ UtilIdle

Next ==
    \/ gh_safe_enter
    \/ gh_safe_preflight
    \/ robust_github_call_enter
    \/ robust_github_call_attempt
    \/ robust_github_call_exhausted
    \/ caller_continues

Spec == Init /\ [][Next]_vars

(* Specification SpecToken: the token manager                              *)

TokenNext ==
    \/ Tick
    \/ get_installation_token_enter
    \/ get_installation_token_jwt
    \/ get_installation_token_post
    \/ get_jwt_token_call
    \/ token_caller_continues

SpecToken == Init /\ [][TokenNext]_vars

(* Specifications of main(): SpecMain runs every command line with GitHub  *)
(* answering every sub-query; SpecCollect runs the default command line    *)
(* with every answer to every sub-query; SpecSanitize runs the export      *)
(* stage on every record list of SanitizerLists.                           *)

MainNext ==
    \/ main_startup
    \/ main_authentication
    \/ main_organization_setup
    \/ main_begin_repository
    \/ main_sub_query
    \/ main_append_record
    \/ main_organization_done
    \/ main_collection_done
    \/ main_export_json
    \/ main_export_csv
    \/ main_export_excel
    \/ main_final_statistics

InitMain == RetryInit /\ TokenInit /\ MainInit /\ UtilIdle

SpecMain == InitMain /\ [][MainNext]_vars

InitCollect == RetryInit /\ TokenInit /\ CollectInit /\ UtilIdle

SpecCollect == InitCollect /\ [][MainNext]_vars

ExportNext ==
    \/ main_collection_done
    \/ main_export_json
    \/ main_export_csv
    \/ main_export_excel
    \/ main_final_statistics

InitSanitize == RetryInit /\ TokenInit /\ SanitizeInit /\ UtilIdle

SpecSanitize == InitSanitize /\ [][ExportNext]_vars

\* one ColumnNameManager and the calls made on it
SpecColumns == Init /\ [][sanitize_column_name]_vars

TrackerNext ==
    \/ tracker_add_error
    \/ tracker_get_error_summary
    \/ tracker_get_errors_for_repo

\* one ErrorTracker and the calls made on it
SpecTracker == Init /\ [][TrackerNext]_vars

BotsNext ==
    \/ is_bot_account_call
    \/ filter_bot_contributors_call

\* is_bot_account is called with a username, "" or None, and
\* filter_bot_contributors with a list of at most MaxContributors entries
InitBots ==
    /\ RetryInit /\ TokenInit /\ MainIdle /\ ColumnNameManagerInit /\ ErrorTrackerInit
    /\ ParseCallIdle
    /\ bot_call \in {[username |-> u, value |-> <<>>] :
                       u \in {Some(n) : n \in Usernames \cup {""}} \cup {None}}
    /\ filter_call \in
         {[contributors |-> c, exclude_bots |-> e, value |-> <<>>] :
             c \in UNION {[1 .. n -> ContributorEntries] : n \in 0 .. MaxContributors},
             e \in BOOLEAN}

SpecBots == InitBots /\ [][BotsNext]_vars

\* parse_installation_ids is called with an argument of 1 to MaxItems items
InitParse ==
    /\ RetryInit /\ TokenInit /\ MainIdle /\ ColumnNameManagerInit /\ ErrorTrackerInit
    /\ BotCallsIdle
    /\ parse_call \in
         {[items |-> items, installation_str |-> JoinItems(items), value |-> <<>>] :
             items \in UNION {[1 .. n -> InstallationItems] : n \in 1 .. MaxItems}}

SpecParse == InitParse /\ [][parse_installation_ids_call]_vars

----------------------------------------------------------------------------
(* Properties of the rate/retry wrapper                                    *)

\* robust_github_call has been entered in the call in progress
Entered == call.entry = "robust" \/ (call.entry = "gh_safe" /\ pre.queried)

\* the call in progress has ended
Finished == pc \in {"returned", "raised"}

AllOfKind(kind) == \A i \in 1 .. Len(log) : log[i].exc.kind = kind

RECURSIVE SleepCount(_)
SleepCount(l) == IF l = <<>> THEN 0 ELSE Len(Head(l).slept) + SleepCount(Tail(l))

IsServerError(e) == e.kind = "GithubException" /\ e.status >= 500

IsForbidden(e) == e.kind = "GithubException" /\ e.status = 403

\* C1: for max_retries = N >= 0, a call whose operation raised a generic
\* exception at every invocation ends after exactly N+1 invocations and
\* returns None.
C1_GenericFailureInvokesNPlus1 ==
    (Entered /\ Finished /\ call.max_retries >= 0 /\ AllOfKind("Exception"))
        => /\ Len(log) = call.max_retries + 1
           /\ pc = "returned"
           /\ result = "None"

C1_Witness ==
    /\ call.entry = "robust" /\ Finished /\ call.max_retries = 1
    /\ AllOfKind("Exception") /\ Len(log) = 2 /\ result = "None"

\* C2: robust_github_call never raises to its caller: every call that ends
\* ends by returning the operation's result or None.
C2_NeverRaises ==
    Finished => (pc = "returned" /\ result \in {"value", "None"})

\* C3: an invocation that raises GithubException with status 403 is the last
\* of its call: the key of (operation, args) is then in the forbidden cache,
\* nothing is slept, and the call returns None.
C3_ForbiddenCachedNoRetry ==
    \A i \in 1 .. Len(log) :
        IsForbidden(log[i].exc)
            => /\ i = Len(log)
               /\ log[i].slept = <<>>
               /\ SafeCacheKey(call.func, call.args) \in FORBIDDEN_CACHE
               /\ pc = "returned"
               /\ result = "None"

\* C4: the forbidden cache only grows, and a gh_safe call entered for a named
\* operation and arguments whose key is already cached returns None with no
\* rate-limit query and no invocation of the operation; a call that has
\* ended does nothing more.
C4_CachedNeverRetried ==
    [][ /\ FORBIDDEN_CACHE \subseteq FORBIDDEN_CACHE'
        /\ ( /\ pc = "idle"
             /\ call'.entry = "gh_safe"
             /\ call'.func.has_name
             /\ RobustCacheKey(call'.func, call'.args) \in FORBIDDEN_CACHE )
            => /\ pc' = "returned"
               /\ result' = "None"
               /\ log' = <<>>
               /\ ~pre'.queried
        /\ Finished => (pc' = "idle" /\ log' = <<>>) ]_vars

C4_Witness ==
    /\ call.entry = "gh_safe" /\ pc = "returned" /\ result = "None"
    /\ RobustCacheKey(call.func, call.args) \in FORBIDDEN_CACHE
    /\ log = <<>> /\ ~pre.queried

\* C5: an invocation that raises UnknownObjectException is the last of its
\* call, no sleep follows it, and the call returns None.
C5_NotFoundNoRetry ==
    \A i \in 1 .. Len(log) :
        log[i].exc.kind = "UnknownObjectException"
            => /\ i = Len(log)
               /\ log[i].slept = <<>>
               /\ pc = "returned"
               /\ result = "None"

C5_Witness ==
    /\ Len(log) >= 1
    /\ log[Len(log)].exc.kind = "UnknownObjectException"
    /\ log[Len(log)].attempt < call.max_retries
    /\ pc = "returned" /\ result = "None"

\* C6: a rate-limit-exceeded failure on an attempt before the last is
\* followed by one sleep of the exception's retry_after (60 when it carries
\* none) and then by another invocation; a call whose operation raised
\* rate-limit-exceeded at every invocation ends after max_retries+1
\* invocations and max_retries sleeps, returning None.
C6_RateLimitSleepsAndRetries ==
    /\ \A i \in 1 .. Len(log) :
        (log[i].exc.kind = "RateLimitExceededException" /\ i - 1 < call.max_retries)
            => /\ log[i].slept =
                    <<IF log[i].exc.has_retry_after THEN log[i].exc.retry_after ELSE 60>>
               /\ (i = Len(log) => (pc = "attempt" /\ attempt = i))
    /\ (Entered /\ Finished /\ call.max_retries >= 0
            /\ AllOfKind("RateLimitExceededException"))
        => /\ Len(log) = call.max_retries + 1
           /\ SleepCount(log) = call.max_retries
           /\ pc = "returned"
           /\ result = "None"

C6_Witness ==
    /\ Finished /\ call.max_retries = 2 /\ Len(log) = 3
    /\ AllOfKind("RateLimitExceededException")
    /\ log[1].slept = <<30>> /\ log[2].slept = <<60>> /\ log[3].slept = <<>>
    /\ result = "None"

\* C7: a server error (status >= 500) or a generic exception on attempt k
\* (counted from 0 over all attempts of the call) is followed, when
\* k < max_retries, by one sleep of 1, 2, 4 seconds for k = 0, 1, 2 and then by
\* attempt k+1; on attempt k = max_retries the call returns None without
\* sleeping.
BackoffSeconds == <<1, 2, 4, 8, 16>>

C7_ExponentialBackoff ==
    \A i \in 1 .. Len(log) :
        (IsServerError(log[i].exc) \/ log[i].exc.kind = "Exception")
            => /\ log[i].attempt = i - 1
               /\ (i - 1 < call.max_retries)
                    => /\ log[i].slept = <<BackoffSeconds[i]>>
                       /\ (i = Len(log) => (pc = "attempt" /\ attempt = i))
               /\ (i - 1 = call.max_retries)
                    => /\ log[i].slept = <<>>
                       /\ i = Len(log)
                       /\ pc = "returned"
                       /\ result = "None"

C7_Witness ==
    /\ Finished /\ call.max_retries = 3 /\ Len(log) = 4
    /\ log[1].exc.kind = "RateLimitExceededException"
    /\ IsServerError(log[2].exc) /\ log[2].slept = <<2>>
    /\ log[3].exc.kind = "Exception" /\ log[3].slept = <<4>>
    /\ IsServerError(log[4].exc) /\ log[4].slept = <<>>
    /\ result = "None"

\* C8: a gh_safe call that invokes the operation has queried the rate limit
\* first; with remaining below 100 it has slept reset - now + 10 seconds
\* (nothing when that moment is already past) before the first invocation,
\* with remaining at least 100 it has not slept.
C8_PreflightBeforeCall ==
    (call.entry = "gh_safe" /\ (pc = "attempt" \/ Len(log) >= 1))
        => /\ pre.queried
           /\ (pre.answer.ok /\ pre.answer.remaining < 100)
                => pre.slept = IF pre.answer.delta + 10 > 0
                               THEN <<pre.answer.delta + 10>> ELSE <<>>
           /\ (pre.answer.ok /\ pre.answer.remaining >= 100) => pre.slept = <<>>

C8_Witness ==
    /\ call.entry = "gh_safe" /\ Len(log) >= 1
    /\ pre.queried /\ pre.answer.ok
    /\ pre.answer.remaining = 99 /\ pre.answer.delta = 50
    /\ pre.slept = <<60>>

----------------------------------------------------------------------------
(* Properties of the token manager                                         *)

TokenFinished == tpc \in {"returned", "raised"}

\* a step that enters get_installation_token(id)
EntersTokenCall(id) ==
    /\ tpc = "idle"
    /\ tcall'.op = "get_installation_token"
    /\ tcall'.installation_id = id

\* C9: get_installation_token for an id whose cached entry satisfies
\* now < expiry - 300 returns the cached token in that very step, with no
\* network exchange and no new assertion, and leaves the token cache and the
\* cached assertion as they were; a finished call changes neither, so every
\* further call inside the window returns the same token.
C9_FreshTokenFromCache ==
    [][ /\ \A id \in InstallIds :
            ( /\ EntersTokenCall(id)
              /\ id \in DOMAIN installation_tokens
              /\ clock < installation_tokens[id].expires_at - 300 )
            => /\ tpc' = "returned"
               /\ tresult' = <<installation_tokens[id].token>>
               /\ tlog'.posts = 0
               /\ ~tlog'.jwt_generated
               /\ installation_tokens' = installation_tokens
               /\ jwt_token' = jwt_token
               /\ jwt_expires_at' = jwt_expires_at
        /\ TokenFinished
            => /\ installation_tokens' = installation_tokens
               /\ jwt_token' = jwt_token
               /\ jwt_expires_at' = jwt_expires_at ]_vars

C9_Witness ==
    /\ tpc = "returned" /\ tcall.op = "get_installation_token"
    /\ tlog.posts = 0
    /\ tcall.installation_id \in DOMAIN installation_tokens
    /\ tcall.cached = <<installation_tokens[tcall.installation_id]>>
    /\ tresult = <<installation_tokens[tcall.installation_id].token>>
    /\ clock > 0
    /\ clock < installation_tokens[tcall.installation_id].expires_at - 300

\* C10: get_installation_token for an id with no cached entry, or with
\* now >= expiry - 300, goes on to the exchange: the assertion is regenerated
\* exactly when none is cached or now >= its expiry - 60 and is otherwise
\* reused; exactly one exchange is made, and when it succeeds the entry of
\* that id (and no other) becomes the answered token and expiry, and the
\* answered token is returned.
C10_StaleTokenRefreshed ==
    [][ /\ \A id \in InstallIds :
            ( /\ EntersTokenCall(id)
              /\ \/ id \notin DOMAIN installation_tokens
                 \/ clock >= installation_tokens[id].expires_at - 300 )
            => /\ tpc' = "jwt"
               /\ tlog'.posts = 0
               /\ installation_tokens' = installation_tokens
        /\ (tpc = "jwt" /\ tpc' # "jwt")
            => /\ tpc' = "post"
               /\ tlog'.posts = 0
               /\ installation_tokens' = installation_tokens
               /\ IF jwt_token = <<>> \/ clock >= jwt_expires_at - 60
                  THEN /\ tlog'.jwt_generated
                       /\ jwt_token' = <<[iat |-> clock - 60, exp |-> clock + 600]>>
                       /\ jwt_expires_at' = clock + 600
                  ELSE /\ ~tlog'.jwt_generated
                       /\ jwt_token' = jwt_token
                       /\ jwt_expires_at' = jwt_expires_at
        /\ (tpc = "post" /\ tpc' # "post")
            => /\ tlog'.posts = 1
               /\ tpc' \in {"returned", "raised"}
               /\ (tpc' = "returned")
                    => /\ tlog'.response[1].ok
                       /\ DOMAIN installation_tokens' =
                            DOMAIN installation_tokens \cup {tcall.installation_id}
                       /\ installation_tokens'[tcall.installation_id] =
                            [token |-> tlog'.response[1].token,
                             expires_at |-> clock + tlog'.response[1].lifetime]
                       /\ \A other \in DOMAIN installation_tokens \ {tcall.installation_id} :
                            installation_tokens'[other] = installation_tokens[other]
                       /\ tresult' = <<tlog'.response[1].token>>
        /\ (TokenFinished /\ tpc' # "idle") => tlog' = tlog ]_vars

C10_Witness ==
    /\ tpc = "returned" /\ tcall.op = "get_installation_token"
    /\ tlog.posts = 1
    /\ ~tlog.jwt_generated
    /\ tcall.cached # <<>>
    /\ tcall.cached[1].token # installation_tokens[tcall.installation_id].token
    /\ tresult = <<installation_tokens[tcall.installation_id].token>>
    /\ Cardinality(DOMAIN installation_tokens) = 2

-----------------------------------------------------------------------------
(* Properties of main()                                                    *)

\* main has returned
MainReturned == mpc = "exit"

\* C11: an authentication error is fatal: when the credentials cannot be
\* loaded, or the installation id lookup or the installation-token exchange
\* of an organization fails, main aborts with exit code 1 and no repository
\* record has been collected
C11_AuthenticationErrorFatal ==
    hist.event \in {"credentials_error", "installation_id_error",
                    "installation_token_error"}
        => /\ MainReturned
           /\ exit_code = Some(1)
           /\ all_repo_data = <<>>

\* the records main holds
Records == {all_repo_data[i] : i \in 1 .. Len(all_repo_data)}

\* the run went through without any recorded error and returned 0
CleanRun == MainReturned /\ exit_code = Some(0) /\ error_tracker = <<>>

\* C12: every record main holds belongs to a repository that passes the scope
\* filters (a fork only with --include-forks, an archived repository only with
\* --include-archived, with --repos only a repository it names); a clean run
\* on org1, which has one fork and one normal repository, without
\* --include-forks and without --repos, and with a --max-repos of one or more,
\* ends with exactly one record
C12_ScopeFilters ==
    /\ \A r \in Records :
         /\ r["fork"] => main_args.include_forks
         /\ r["archived"] => main_args.include_archived
         /\ main_args.repos # <<>> =>
              \E i \in 1 .. Len(main_args.repos) : main_args.repos[i] = r["name"]
    /\ (CleanRun /\ main_args.org = "org1" /\ ~main_args.include_forks
            /\ main_args.repos = <<>> /\ main_args.max_repos >= 1)
         => /\ Len(all_repo_data) = 1
            /\ all_repo_data[1]["name"] = "api"

\* a clean run on org1 without --include-forks has dropped the fork and kept
\* the normal repository
C12_Witness ==
    /\ CleanRun
    /\ main_args.org = "org1"
    /\ ~main_args.include_forks
    /\ main_args.repos = <<>>
    /\ main_args.max_repos = 1
    /\ Len(all_repo_data) = 1
    /\ ~all_repo_data[1]["fork"]

\* the logins of the contributor list of record r (none when the list is None)
ContributorLogins(r) ==
    IF "contributors" \in DOMAIN r /\ r["contributors"] # None
    THEN {r["contributors"][1][i].login : i \in 1 .. Len(r["contributors"][1])}
    ELSE {}

\* the logins of the commit-author statistics of record r
CommitAuthorLogins(r) ==
    IF "commit_authors" \in DOMAIN r THEN DictKeys(r["commit_authors"]) ELSE {}

\* the repository of GitHub that record r was collected from
RepositoryOf(r) ==
    LET repos == OrganizationRepos[r["organization"]]
    IN  repos[CHOOSE i \in 1 .. Len(repos) : repos[i].name = r["name"]]

\* C13: with --exclude-bots no record holds an account whose username matches
\* a bot pattern, neither in its contributor list nor in its commit-author
\* statistics; without the flag the record holds every contributor and every
\* commit author of its repository
C13_ExcludeBots ==
    \A r \in Records :
        IF main_args.exclude_bots
        THEN \A u \in ContributorLogins(r) \cup CommitAuthorLogins(r) :
                 ~is_bot_account(u)
        ELSE /\ "contributors" \in DOMAIN r =>
                  ContributorLogins(r) =
                      {RepositoryOf(r).contributors[i] :
                          i \in 1 .. Len(RepositoryOf(r).contributors)}
             /\ "commit_authors" \in DOMAIN r =>
                  CommitAuthorLogins(r) =
                      {RepositoryOf(r).commits[i] :
                          i \in 1 .. Len(RepositoryOf(r).commits)}

\* C14: without --include-empty no record is of a repository with no commit
\* inside the --days-back window; with --include-empty a clean run on both
\* organizations with --max-repos 100 holds the record of docs, which has none
C14_ExcludeEmpty ==
    /\ ~main_args.include_empty =>
         \A r \in Records : "total_commits" \in DOMAIN r => r["total_commits"] > 0
    /\ (main_args.include_empty /\ CleanRun /\ main_args.org_ids # <<>>
            /\ main_args.repos = <<>> /\ main_args.max_repos = DEFAULT_MAX_REPOS)
         => \E r \in Records : r["name"] = "docs" /\ r["total_commits"] = 0

\* the record that an append step has just added
NewRecord == all_repo_data'[Len(all_repo_data')]

\* after sub-query q got the answer outcome, record r holds the data of
\* repository repo when the answer was "ok", and otherwise either lacks the
\* field or holds its empty default (None, an empty list, a zero count)
FieldOf(r, q, repo, outcome) ==
    LET ok == outcome = "ok"
        none == outcome = "None"
    IN CASE q = "commit_stats" ->
              IF none THEN "total_commits" \notin DOMAIN r
              ELSE /\ r["total_commits"] = (IF ok THEN Len(repo.commits) ELSE 0)
                   /\ ~ok => r["commit_authors"] = <<>>
         [] q = "languages" ->
              IF ok /\ repo.languages # <<>>
              THEN r["languages"] = PyDict(repo.languages)
              ELSE {"languages", "total_code_bytes", "primary_language"}
                       \cap DOMAIN r = {}
         [] q = "topics" ->
              r["topics"] = (IF none THEN None ELSE IF ok THEN Some(<<"topic">>)
                             ELSE Some(<<>>))
         [] q = "contributors" ->
              /\ none => r["contributors"] = None
              /\ outcome = "default" => r["contributors"] = Some(<<>>)
              /\ r["contributors_count"] = (IF ok THEN Len(repo.contributors) ELSE 0)
         [] q = "branch_tag_info" ->
              IF none THEN "branches_count" \notin DOMAIN r
              ELSE r["branches_count"] = (IF ok THEN 1 ELSE 0)
         [] q = "release_info" ->
              IF none THEN "total_releases" \notin DOMAIN r
              ELSE r["total_releases"] = (IF ok THEN 1 ELSE 0)
         [] q = "actions_info" ->
              IF none THEN "github_actions" \notin DOMAIN r
              ELSE r["github_actions"].workflows_count = (IF ok THEN 1 ELSE 0)
         [] q = "protection_info" ->
              IF none THEN "branch_protection" \notin DOMAIN r
              ELSE r["branch_protection"].protected = ok
         [] q = "latest_commit" ->
              IF ok /\ repo.commits # <<>> THEN "latest_commit" \in DOMAIN r
              ELSE "latest_commit" \notin DOMAIN r
         [] q = "deps" ->
              IF ok THEN "dependencies" \in DOMAIN r
              ELSE "dependencies" \notin DOMAIN r
         [] q = "submodules" ->
              /\ none => r["submodules"] = None
              /\ outcome = "default" => r["submodules"] = Some(<<>>)
              /\ r["submodules_count"] = (IF ok THEN 1 ELSE 0)

\* C15: whatever subset of the eleven sub-queries of a repository fails or
\* finds nothing, a failing sub-query neither ends the processing of the
\* repository nor records an error, all eleven sub-queries have run when the
\* record is appended, exactly one record is appended, and each field of the
\* failed sub-queries is absent or at its empty default
C15_SubQueriesFaultIsolated ==
    [][/\ (mpc = "sub_query" /\ hist'.event # "interrupt") =>
            /\ mpc' \in {"sub_query", "repo_loop"}
            /\ error_tracker' = error_tracker
       /\ (mpc = "sub_query" /\ mpc' = "repo_loop") =>
            /\ Len(hist.outcomes) = Len(SubQueries)
            /\ all_repo_data' = Append(all_repo_data, NewRecord)
            /\ NewRecord["name"] = Head(repos_left).name
            /\ \A k \in 1 .. Len(SubQueries) :
                   FieldOf(NewRecord, SubQueries[k], Head(repos_left),
                           hist.outcomes[k])]_vars

\* the record of a repository all of whose sub-queries returned None
C15_Witness ==
    /\ Len(all_repo_data) = 1
    /\ LET r == all_repo_data[1]
       IN  /\ {"total_commits", "languages", "branches_count", "total_releases",
                "github_actions", "branch_protection", "latest_commit",
                "dependencies"} \cap DOMAIN r = {}
           /\ r["topics"] = None
           /\ r["contributors"] = None
           /\ r["submodules"] = None

\* the error entries of the given type
ErrorsOfType(error_type) ==
    {i \in 1 .. Len(error_tracker) : error_tracker[i].error_type = error_type}

\* C16: an exception while one repository is processed adds exactly one
\* processing_error entry for that repository, appends no record, and the
\* repository loop goes on with the next repository; an exception while an
\* organization is set up or listed adds exactly one organization_error entry
\* for it, and the organization loop goes on with the next organization,
\* the records collected so far being kept
C16_ErrorsAreRecordedAndSkipped ==
    [][/\ hist'.event = "repository_error" =>
            /\ mpc = "repo_loop" /\ mpc' = "repo_loop"
            /\ error_tracker' = Append(error_tracker,
                   [repo_name |-> Head(repos_left).name,
                    error_type |-> "processing_error"])
            /\ all_repo_data' = all_repo_data
            /\ repos_left' = Tail(repos_left)
            /\ orgs_left' = orgs_left
            /\ exit_code' = None
       /\ hist'.event \in {"organization_error", "installation_id_error",
                           "installation_token_error"} =>
            /\ mpc = "org_loop" /\ mpc' = "org_loop"
            /\ error_tracker' = Append(error_tracker,
                   [repo_name |-> Head(orgs_left)[1],
                    error_type |-> "organization_error"])
            /\ all_repo_data' = all_repo_data
            /\ orgs_left' = Tail(orgs_left)
            /\ exit_code' = None]_vars

\* a run that lost one organization after it had collected a record of
\* another, lost one repository, and went through to the end
C16_Witness ==
    /\ MainReturned
    /\ exit_code = Some(0)
    /\ Len(all_repo_data) = 1
    /\ all_repo_data[1]["organization"] = "org1"
    /\ \E i \in ErrorsOfType("organization_error") :
           error_tracker[i].repo_name = "org2"
    /\ \E i \in ErrorsOfType("processing_error") :
           error_tracker[i].repo_name = "api-fork"

\* the events after which the claim has main return 1
FatalEvents ==
    {"config_error", "validation_error", "credentials_error", "report_error",
     "interrupt"}

\* the reports that --format asks for
RequestedReports ==
    IF main_args.format = "all" THEN {"json", "csv", "excel"} ELSE {main_args.format}

\* C17: main returns 0 when the run completes, with every organization
\* iterated and every requested report written, and returns 1 when a fatal
\* error or a keyboard interruption occurred at any point of the run
C17_ExitCodes ==
    MainReturned =>
        IF hist.interrupted \/ hist.event \in FatalEvents
        THEN exit_code = Some(1)
        ELSE /\ exit_code = Some(0)
             /\ orgs_left = <<>>
             /\ reports = RequestedReports

-----------------------------------------------------------------------------
(* Properties of sanitize_language_names                                   *)

\* the record list handed to the sanitizer, and the list it returned
SanitizerInput == hist.repo_data_before[1]

SanitizerOutput == sanitized_repo_data[1]

\* a sanitizing pass has run
Sanitized == sanitized_repo_data # None

\* the positions of the records that hold a languages dict
WithLanguages(repo_data) ==
    {i \in 1 .. Len(repo_data) :
        "languages" \in DOMAIN repo_data[i] /\ repo_data[i]["languages"].type = "dict"}

\* the name the claim gives language name k after the pass
Renamed(k) ==
    CASE k = "C#" -> "CSharp"
      [] k = "C++" -> "CPlusPlus"
      [] k = "F#" -> "FSharp"
      [] OTHER -> k

\* C18: in the result of sanitize_language_names the languages mapping of a
\* record holds, for every key of the input mapping, its byte count under
\* the key CSharp, CPlusPlus or FSharp when the key is exactly C#, C++ or F#,
\* and under the unchanged key otherwise (case variants such as c# included),
\* and holds no other key
C18_ExactRenames ==
    Sanitized =>
        \A i \in WithLanguages(SanitizerInput) :
            LET in == SanitizerInput[i]["languages"].items
                out == SanitizerOutput[i]["languages"].items
            IN  /\ DictKeys(out) = {Renamed(k) : k \in DictKeys(in)}
                /\ \A k \in DictKeys(in) : DictGet(out, Renamed(k)) = DictGet(in, k)

\* C19: for every record with a languages mapping the sum of the byte counts
\* is the same before and after sanitize_language_names
C19_ByteSumPreserved ==
    Sanitized =>
        \A i \in WithLanguages(SanitizerInput) :
            SumValues(SanitizerOutput[i]["languages"].items)
                = SumValues(SanitizerInput[i]["languages"].items)

\* the fields of record r other than the two the sanitizer rewrites
OtherFields(r) ==
    [k \in DOMAIN r \ {"languages", "primary_language"} |-> r[k]]

\* C20: sanitize_language_names leaves its input as it was: after every
\* export pass repo_data and each of its records equal what they were when
\* the collection ended, the list written to the JSON report is that list,
\* and the sanitized list holds one record per input record in input order
C20_InputNotModified ==
    hist.repo_data_before # None =>
        /\ all_repo_data = SanitizerInput
        /\ json_written # None => json_written[1] = SanitizerInput
        /\ Sanitized =>
             /\ Len(SanitizerOutput) = Len(SanitizerInput)
             /\ \A i \in 1 .. Len(SanitizerInput) :
                    /\ DOMAIN SanitizerOutput[i] = DOMAIN SanitizerInput[i]
                    /\ OtherFields(SanitizerOutput[i]) = OtherFields(SanitizerInput[i])

\* a run with --format all that ended after the JSON report and both
\* sanitizing passes, on two records of which the sanitizer renamed a language
C20_Witness ==
    /\ MainReturned
    /\ exit_code = Some(0)
    /\ reports = {"json", "csv", "excel"}
    /\ Len(all_repo_data) = 2
    /\ SanitizerOutput # all_repo_data
    /\ SanitizerOutput[1]["name"] = "repo-1"
    /\ SanitizerOutput[2]["name"] = "repo-2"

----------------------------------------------------------------------------
(* Properties of ColumnNameManager                                         *)

\* the names returned by the calls before call i
ReturnedBefore(i) == {column_calls[j].returned : j \in 1 .. i - 1}

\* C21: every name sanitize_column_name returns is at most 31 characters
\* long, whatever the input and whatever calls came before; on a fresh
\* manager a 40-character input gives a name of at most 31 characters that
\* ends in "...".
C21_NamesWithinLimit ==
    /\ \A i \in 1 .. Len(column_calls) : Len(column_calls[i].returned) <= 31
    /\ (Len(column_calls) >= 1 /\ Len(column_calls[1].name) = 40)
         => /\ Len(column_calls[1].returned) <= 31
            /\ EndsWith(column_calls[1].returned, <<".", ".", ".">>)

\* C22: the names one manager has returned are pairwise distinct; an input
\* that cleans to a name already returned gets that name followed by _k for
\* the smallest k >= 1 whose suffixed name is not yet used; the second of two
\* equal inputs ends in _1.
C22_DistinctNames ==
    /\ \A i, j \in 1 .. Len(column_calls) :
         i # j => column_calls[i].returned # column_calls[j].returned
    /\ \A i \in 1 .. Len(column_calls) :
         LET clean == CleanColumnName(column_calls[i].name)
             suffixed(k) == clean \o <<"_">> \o str(k)
         IN  IF clean \notin ReturnedBefore(i)
             THEN column_calls[i].returned = clean
             ELSE \E k \in 1 .. i :
                    /\ column_calls[i].returned = suffixed(k)
                    /\ \A m \in 1 .. k - 1 : suffixed(m) \in ReturnedBefore(i)
    /\ (Len(column_calls) >= 2 /\ column_calls[1].name = column_calls[2].name)
         => EndsWith(column_calls[2].returned, <<"_", "1">>)

\* a third call whose clean name and first suffixed name are both taken
C22_Witness ==
    /\ Len(column_calls) = 3
    /\ CleanColumnName(column_calls[3].name) \in ReturnedBefore(3)
    /\ EndsWith(column_calls[3].returned, <<"_", "2">>)
    /\ column_calls[1].name # column_calls[3].name

\* C23: the table get_mapping returns records every resolution: each name
\* the manager has returned, the suffixed ones included, is the value the
\* table holds for the original name it was returned for.
C23_MappingRecordsEveryResolution ==
    \A i \in 1 .. Len(column_calls) :
        \E name \in DOMAIN column_mapping :
            /\ name = column_calls[i].name
            /\ column_mapping[name] = column_calls[i].returned

----------------------------------------------------------------------------
(* Properties of the bot filter                                            *)

\* the usernames of the model that match one of BOT_PATTERNS when case is
\* ignored: they end in bot or [bot], or start with one of the listed names
KnownBots ==
    {"dependabot[bot]", "RenovateBot", "dependabot", "DEPENDABOT", "renovate[bot]",
     "github-actions[bot]", "codecov-bot", "greenkeeper[bot]", "snyk-bot", "imgbot",
     "semantic-release-bot", "pre-commit-ci[bot]", "mybot", "Stale-Issues"}

\* C24: is_bot_account is true of every username that matches one of the
\* bot patterns when case is ignored ("dependabot" and "DEPENDABOT" alike),
\* false of a username that matches none, and false of "" and of None.
C24_BotAccounts ==
    bot_call.value # <<>> =>
        bot_call.value[1] = (/\ bot_call.username # None
                             /\ bot_call.username[1] \in KnownBots)

\* the upper-case spelling of a bot name has been answered
C24_Witness ==
    /\ bot_call.username = Some("DEPENDABOT")
    /\ bot_call.value = <<TRUE>>

\* the login of the entry is that of a bot
BotEntry(contrib) == "login" \in DOMAIN contrib /\ contrib.login \in KnownBots

\* C25: with exclude_bots true filter_bot_contributors returns exactly the
\* entries whose login is not a bot account, unchanged and in their input
\* order, keeping an entry whose login is empty or missing; with
\* exclude_bots false it returns every entry in input order.
C25_FilterBotContributors ==
    filter_call.value # <<>> =>
        filter_call.value[1] =
            IF filter_call.exclude_bots
            THEN SelectSeq(filter_call.contributors, LAMBDA c : ~BotEntry(c))
            ELSE filter_call.contributors

\* a list with a bot between an entry without login and a human was filtered
C25_Witness ==
    /\ filter_call.exclude_bots
    /\ filter_call.contributors = << [contributions |-> 2],
                                     [login |-> "dependabot[bot]", contributions |-> 5],
                                     [login |-> "human-user", contributions |-> 10] >>
    /\ filter_call.value = << << [contributions |-> 2],
                                 [login |-> "human-user", contributions |-> 10] >> >>

----------------------------------------------------------------------------
(* Properties of parse_installation_ids                                    *)

\* the key an item of the argument is stored under
KeyOf(item) == IF item.org = None THEN DEFAULT_KEY ELSE item.org[1]

\* C26: every item org:id gives the entry org -> id and every item without
\* a colon the entry "default" -> id, so "12345" gives {"default": 12345}
\* and "org1:111,222,org3:333" gives {"org1": 111, "default": 222,
\* "org3": 333}; of several items with the same key the last one is kept.
C26_ParseInstallationIds ==
    parse_call.value # <<>> =>
        LET items == parse_call.items
            answer == parse_call.value[1]
        IN  /\ ~answer.raised
            /\ DOMAIN answer.value = {KeyOf(items[i]) : i \in 1 .. Len(items)}
            /\ \A i \in 1 .. Len(items) :
                 (\A j \in i + 1 .. Len(items) : KeyOf(items[j]) # KeyOf(items[i]))
                     => answer.value[KeyOf(items[i])] = items[i].id
            /\ parse_call.installation_str = <<"1", "2", "3", "4", "5">>
                 => answer.value = (DEFAULT_KEY :> 12345)
            /\ parse_call.installation_str =
                   <<"o", "r", "g", "1", ":", "1", "1", "1", ",", "2", "2", "2", ",",
                     "o", "r", "g", "3", ":", "3", "3", "3">>
                 => answer.value = (<<"o", "r", "g", "1">> :> 111)
                                   @@ (DEFAULT_KEY :> 222)
                                   @@ (<<"o", "r", "g", "3">> :> 333)

\* an argument whose first and last item have the same organization, the
\* last one written with white space, has been parsed
C26_Witness ==
    /\ parse_call.value # <<>>
    /\ Len(parse_call.items) = 3
    /\ parse_call.items[1].org = Some(<<"o", "r", "g", "1">>)
    /\ parse_call.items[1].id = 111
    /\ parse_call.items[2].org = None
    /\ parse_call.items[3].id = 444
    /\ parse_call.value[1].value[<<"o", "r", "g", "1">>] = 444

----------------------------------------------------------------------------
(* Properties of the repository limit of main()                            *)

\* the number of organizations of the run
OrganizationCount == IF main_args.org # "" THEN 1 ELSE Len(main_args.org_ids)

\* the limit of one organization: max_repos, or floor(max_repos / n) for n > 1
OrganizationLimit ==
    IF OrganizationCount > 1 THEN main_args.max_repos \div OrganizationCount
    ELSE main_args.max_repos

\* the most repositories a limit allows: none when the limit is negative
AtMost(limit) == IF limit > 0 THEN limit ELSE 0

RecordsOf(org_name) ==
    SelectSeq(all_repo_data, LAMBDA r : r["organization"] = org_name)

\* C27: main never analyses more than --max-repos repositories: of one
\* organization at most max_repos in a run with one organization and at most
\* floor(max_repos / number of organizations) in a run with several, taken
\* from the front of the filtered list, so that the records of all
\* organizations together are at most max_repos.
C27_MaxRepos ==
    /\ Len(all_repo_data) <= AtMost(main_args.max_repos)
    /\ \A org_name \in DOMAIN OrganizationRepos :
         LET filtered_repos == FilterRepos(main_args, OrganizationRepos[org_name])
         IN  /\ Len(RecordsOf(org_name)) <= AtMost(OrganizationLimit)
             /\ \A i \in 1 .. Len(RecordsOf(org_name)) :
                  \E k \in 1 .. OrganizationLimit :
                      /\ k <= Len(filtered_repos)
                      /\ filtered_repos[k].name = RecordsOf(org_name)[i]["name"]

----------------------------------------------------------------------------
(* Properties of ErrorTracker                                              *)

\* the sum of the values of a dictionary
RECURSIVE SumOf(_)
SumOf(f) ==
    IF DOMAIN f = {} THEN 0
    ELSE LET k == CHOOSE k \in DOMAIN f : TRUE
         IN  f[k] + SumOf([x \in DOMAIN f \ {k} |-> f[x]])

\* the add_error calls made for one repository, in the order they were made
CallsFor(repo_name) == SelectSeq(tracker_calls, LAMBDA c : c.repo_name = repo_name)

\* C28: after any sequence of add_error calls, get_error_summary reports
\* total_errors equal to the number of calls, which is also the sum of the
\* errors_by_category counts and the sum of the lengths of the
\* per-repository lists, and repos_with_errors equal to the number of
\* distinct repository names passed; get_errors_for_repo returns the entries
\* of the repository in insertion order, the empty list for an unknown
\* repository, and changes nothing in the tracker.
C28_ErrorSummary ==
    LET summary == get_error_summary(tracker)
    IN  /\ summary.total_errors = Len(tracker_calls)
        /\ SumOf(summary.errors_by_category) = Len(tracker_calls)
        /\ SumOf([r \in DOMAIN tracker.repo_errors |-> Len(tracker.repo_errors[r])])
             = Len(tracker_calls)
        /\ summary.repos_with_errors =
             Cardinality({tracker_calls[i].repo_name : i \in 1 .. Len(tracker_calls)})
        /\ \A repo_name \in TrackerRepos \cup {"unknown"} :
             get_errors_for_repo(tracker, repo_name).value = CallsFor(repo_name)
        /\ tracker_query # <<>> =>
             IF tracker_query[1].call = "get_error_summary"
             THEN tracker_query[1].value = summary
             ELSE tracker_query[1].value = CallsFor(tracker_query[1].repo_name)

\* after errors of two kinds for repo1 and one for repo2, the errors of repo1
\* have been asked for
C28_Witness ==
    /\ Len(tracker_calls) = 3
    /\ tracker_query # <<>>
    /\ tracker_query[1].call = "get_errors_for_repo"
    /\ tracker_query[1].repo_name = "repo1"
    /\ tracker_query[1].value =
         << [repo_name |-> "repo1", error_type |-> "PERMISSION_ERROR"],
            [repo_name |-> "repo1", error_type |-> "API_ERROR"] >>
    /\ get_error_summary(tracker).repos_with_errors = 2

----------------------------------------------------------------------------
(* Bounded work of robust_github_call                                      *)

\* the invocations of the call in progress that were followed by a sleep
SleepsOfCall == {i \in 1 .. Len(log) : log[i].slept # <<>>}

\* C29: for every max_retries = N >= 0 and every sequence of outcomes,
\* rate-limit, server-error and generic failures in any order, the operation
\* is invoked at most N+1 times and at most N sleeps happen before the call
\* ends, because every failure kind uses up the same attempt counter; the
\* first successful invocation ends the call with the operation's result.
C29_BoundedWork ==
    (Entered /\ call.max_retries >= 0) =>
        /\ Len(log) <= call.max_retries + 1
        /\ Cardinality(SleepsOfCall) <= call.max_retries
        /\ \A i \in 1 .. Len(log) :
             /\ log[i].attempt = i - 1
             /\ log[i].exc.kind = "ok" =>
                  /\ i = Len(log)
                  /\ pc = "returned"
                  /\ result = "value"
        /\ Len(log) = call.max_retries + 1 => Finished

\* a call with max_retries = 2 met a rate limit, then a server error, slept
\* after each, and returned the result of its third invocation
C29_Witness ==
    /\ call.entry = "robust"
    /\ call.max_retries = 2
    /\ pc = "returned"
    /\ result = "value"
    /\ Len(log) = 3
    /\ log[1].exc.kind = "RateLimitExceededException"
    /\ log[2].exc.kind = "GithubException"
    /\ log[3].exc.kind = "ok"
    /\ Cardinality(SleepsOfCall) = 2

----------------------------------------------------------------------------
(* A failed exchange in get_installation_token                             *)

\* the exchange of the call in progress has just been answered with a failure
ExchangeFailed ==
    /\ tpc = "post"
    /\ tlog'.posts = tlog.posts + 1
    /\ ~tlog'.response[1].ok

\* C30: when the exchange inside get_installation_token fails (transport
\* error or non-2xx answer), the exception goes to the caller without a
\* retry and the token cache is as it was before the call: the entries of
\* the other installation ids and an earlier entry of this id keep their
\* token and expiry.
C30_FailedExchange ==
    [][ /\ ExchangeFailed =>
              /\ tpc' = "raised"
              /\ tresult' = <<>>
              /\ tlog'.posts = 1
              /\ installation_tokens' = installation_tokens
        /\ (tcall.op = "get_installation_token" /\ tpc \in {"jwt", "raised"}) =>
              installation_tokens' = installation_tokens
        /\ tpc = "raised" =>
              /\ tlog'.posts = tlog.posts \/ tpc' = "idle"
              /\ IF tcall.cached = <<>>
                 THEN tcall.installation_id \notin DOMAIN installation_tokens
                 ELSE installation_tokens[tcall.installation_id] = tcall.cached[1]
      ]_vars

\* a call for an id with a stale entry, made while the other id has an entry
\* too, has ended with the exception of its one exchange
C30_Witness ==
    /\ tpc = "raised"
    /\ tcall.op = "get_installation_token"
    /\ tcall.cached # <<>>
    /\ DOMAIN installation_tokens = InstallIds
    /\ installation_tokens[tcall.installation_id] = tcall.cached[1]
    /\ tlog.posts = 1

=============================================================================
